---------------------------- MODULE Spec2Model ----------------------------
(***************************************************************************)
(* Model of the remote-unlock relay of hmm-notes.                          *)
(*                                                                         *)
(*   pages/api/session.ts       (src/unnamed/part_001)  create endpoint    *)
(*   pages/api/session/[id].ts  (src/unnamed/part_002)  poll / store       *)
(*   lib/webauthn.ts            (src/unnamed/part_000)  verifyAssertion    *)
(*                                                                         *)
(* Times are milliseconds, as returned by Date.now().  Each API handler    *)
(* is an async function without an await, so on the single-threaded event  *)
(* loop it runs to completion: one handler call is one step.               *)
(***************************************************************************)
EXTENDS Naturals, FiniteSets, Sequences, TLC

(***************************************************************************)
(* Program constants                                                       *)
(***************************************************************************)
\* part_001:21  const SESSION_TTL = 120 * 1000
SESSION_TTL == 120000

\* part_001:22  const MAX_SESSIONS = 1000, scaled down to fit the three ids
\* of the model
MAX_SESSIONS == 2

\* part_001:32  setInterval(..., 60 * 1000)
SWEEP_INTERVAL == 60000

\* app/page.tsx:512  useState(120)
COUNTDOWN_START == 120

\* app/page.tsx:524  setInterval(pollSession, 2000)
POLL_INTERVAL == 2000

\* app/page.tsx:537  the countdown interval
COUNTDOWN_INTERVAL == 1000

\* app/page.tsx:589-591  setTimeout(() => router.push('/'), 2000)
REDIRECT_DELAY == 2000

\* app/page.tsx:166  timeout={5 * 60 * 1000}
LOCK_TIMEOUT == 300000

(***************************************************************************)
(* Bounds of the model                                                     *)
(***************************************************************************)
\* the clock stops after this many sweep intervals
MaxIntervals == 2

\* pollSession calls of the QR page that can be unfinished at one time; the
\* fetch of a further call fails at once
MaxInFlight == 1

\* the longest string that is encrypted, in code units
MaxText == 2

\* the number of calls of crypto.getRandomValues
MaxDraws == 3

\* the saves of the editor that are followed
MaxSaves == 3

\* the milliseconds that pass while the dashboard is open
MaxClock == 3

\* the minutes the session timer is followed for
MaxMinutes == 7

\* the longest byte array that is encoded
MaxBytes == 4

\* the responding devices that race to store an assertion
Responders == {"p1", "p2"}

Ids == {"s1", "s2", "s3"}

Challenges == {"c1", "c2"}

Assertions == {"A1", "A2"}

(***************************************************************************)
(* JavaScript values of a request field                                    *)
(***************************************************************************)
\* session.assertion before the responder has answered (part_001:75)
Null == "null"

\* a field that is absent from the JSON body or the query
Undefined == "undefined"

\* a field that is present but is not a string (a number)
NonString == "42"

FieldValues(strings) == strings \cup {Undefined, NonString}

\* !v || typeof v !== 'string'   (part_001:58,62  part_002:48,89)
InvalidString(v) == v = Undefined \/ v = NonString

\* no session, no request, no response
None == [kind |-> "none"]

(***************************************************************************)
(* Map<string, Session>                                                    *)
(***************************************************************************)
EmptyMap == [x \in {} |-> None]

MapHas(m, k) == k \in DOMAIN m

MapSet(m, k, v) == [x \in (DOMAIN m) \cup {k} |-> IF x = k THEN v ELSE m[x]]

MapDelete(m, k) == [x \in (DOMAIN m) \ {k} |-> m[x]]

MapSize(m) == Cardinality(DOMAIN m)

(***************************************************************************)
(* State                                                                   *)
(***************************************************************************)
VARIABLES
    now,            \* Date.now()
    sessions,       \* part_001:19  the Map of the create endpoint's module
    sessionStore,   \* part_002:21  global.sessionStore, the Map of [id].ts
    nextSweep,      \* earliest time the setInterval callback fires next
    last,           \* the latest HTTP response: route, method, status, body
    race,           \* race[p]: the store request of responder p, in flight
                    \* (status 0) or answered
    call,           \* the arguments of the current call of a library
                    \* function (verifyAssertion, lib/crypto.ts, the backup
                    \* functions)
    result,         \* what that call did: what it returned, or that it threw
    masterKeyData,  \* IndexedDB: the record 'current' of the masterKey store
    credential,     \* IndexedDB: the first record of the webauthn store
    page,           \* the page the browser shows
    masterKey,      \* app/page.tsx:19  Home's masterKey state
    modal,          \* UnlockModal's state: error, last submission
    qr,             \* QRUnlock's state and its timers
    polls,          \* the pollSession calls that have not finished: the
                    \* response of each, once its fetch has settled
    redirects,      \* the times at which pending setTimeout(() =>
                    \* router.push('/')) callbacks are due
    phone,          \* the scan page on the phone
    notes,          \* IndexedDB: the notes store, by id
    random,         \* what crypto.getRandomValues has been asked for so far:
                    \* the key each 12-byte IV was drawn for, and the IV
    timeoutRef,     \* SessionTimer.tsx:16  the pending setTimeout of the
                    \* SessionTimer and the time it is due
    showEditor,     \* app/page.tsx:22  Home's showEditor state
    lastActivity,   \* the time of the latest activity event on the unlocked
                    \* dashboard, or of the unlock
    download        \* the backup exportBackup returned last (app/page.tsx:
                    \* 87-96 saves it as a file)

relayVars == <<now, sessions, sessionStore, nextSweep, last, race>>

verifyVars == <<call, result>>

dataVars == <<notes, random>>

lockVars == <<timeoutRef, showEditor, lastActivity>>

appVars ==
    <<masterKeyData, credential, page, masterKey, modal, qr, polls, redirects, phone,
      notes, random, timeoutRef, showEditor, lastActivity, download>>

vars ==
    <<now, sessions, sessionStore, nextSweep, last, race, call, result,
      masterKeyData, credential, page, masterKey, modal, qr, polls, redirects,
      phone, notes, random, timeoutRef, showEditor, lastActivity, download>>

(***************************************************************************)
(* Session records                                                         *)
(***************************************************************************)
\* mutant: the deadline is computed in seconds
NewSessionSeconds(challenge, t) ==
    [challenge |-> challenge,
     assertion |-> Null,
     createdAt |-> t,
     expiresAt |-> t + SESSION_TTL \div 1000]

\* part_001:72-78
NewSession(challenge, t) ==
    [challenge |-> challenge,
     assertion |-> Null,
     createdAt |-> t,
     expiresAt |-> t + SESSION_TTL]

\* mutant: a session counts as expired at its deadline already
ExpiredAtDeadline(session, t) == t >= session.expiresAt

\* part_001:28, part_002:61,82   now > session.expiresAt
Expired(session, t) == t > session.expiresAt

\* a stored session that has not expired
Live(m, id, t) == MapHas(m, id) /\ ~Expired(m[id], t)

LiveCount(m, t) == Cardinality({id \in DOMAIN m : ~Expired(m[id], t)})

(***************************************************************************)
(* HTTP requests and responses                                             *)
(***************************************************************************)
\* req.body after Next.js parsed it: a JSON object, or the JSON value null
BodyObject == "object"

BodyNull == "null-body"

Request(route, method, body, id, challenge, assertion) ==
    [route |-> route, method |-> method, body |-> body, id |-> id,
     challenge |-> challenge, assertion |-> assertion]

\* requests to /api/session; a handler that returns before it reads a field
\* gets that field as Undefined
CreateRequests ==
    {Request("create", "POST", BodyObject, i, ch, Undefined) :
        i \in Ids, ch \in FieldValues(Challenges)}
    \cup
    {Request("create", "POST", BodyObject, i, Undefined, Undefined) :
        i \in {Undefined, NonString}}
    \cup
    {Request("create", "POST", BodyNull, Undefined, Undefined, Undefined),
     Request("create", "OPTIONS", BodyNull, Undefined, Undefined, Undefined),
     Request("create", "GET", BodyNull, Undefined, Undefined, Undefined)}

\* GET /api/session/[id]
PollRequests ==
    {Request("id", "GET", BodyNull, i, Undefined, Undefined) :
        i \in FieldValues(Ids)}

\* POST /api/session/[id] with body {assertion: a}
StoreRequest(i, a) == Request("id", "POST", BodyObject, i, Undefined, a)

StoreRequests ==
    {StoreRequest(i, a) : i \in Ids, a \in FieldValues(Assertions)}
    \cup
    {StoreRequest(i, Undefined) : i \in {Undefined, NonString}}
    \cup
    {Request("id", "POST", BodyNull, i, Undefined, Undefined) : i \in Ids}

OtherIdRequests ==
    {Request("id", m, BodyNull, i, Undefined, Undefined) :
        m \in {"OPTIONS", "DELETE"}, i \in {"s1", Undefined}}

IdRequests == PollRequests \cup StoreRequests \cup OtherIdRequests

Reply(status, body, store) == [status |-> status, body |-> body, store |-> store]

Error(msg) == [error |-> msg]

(***************************************************************************)
(* POST /api/session   (part_001:38-90)                                    *)
(***************************************************************************)
\* mutant: the limit is tested with > in place of >=
AtCapacityPast(m) == MapSize(m) > MAX_SESSIONS

\* part_001:67
AtCapacity(m) == MapSize(m) >= MAX_SESSIONS

CreateHandler(m, r, t) ==
    IF r.method = "OPTIONS" THEN Reply(200, Error(""), m)
    ELSE IF r.method # "POST" THEN Reply(405, Error("Method not allowed"), m)
    \* destructuring null throws inside the try block: caught, 500
    ELSE IF r.body = BodyNull THEN Reply(500, Error("Internal server error"), m)
    ELSE IF InvalidString(r.id) THEN Reply(400, Error("Invalid sessionId"), m)
    ELSE IF InvalidString(r.challenge) THEN Reply(400, Error("Invalid challenge"), m)
    ELSE IF AtCapacity(m) THEN Reply(503, Error("Server busy, try again"), m)
    ELSE Reply(200,
               [success |-> TRUE, expiresIn |-> SESSION_TTL \div 1000],
               MapSet(m, r.id, NewSession(r.challenge, t)))

(***************************************************************************)
(* GET and POST /api/session/[id]   (part_002:33-105)                      *)
(***************************************************************************)
\* mutant: the poll answers from a stale copy that has no assertion yet
GetHandlerStale(m, r, t) ==
    IF ~MapHas(m, r.id)
    THEN Reply(404, Error("Session not found or expired"), m)
    ELSE IF t > m[r.id].expiresAt
    THEN Reply(404, Error("Session expired"), MapDelete(m, r.id))
    ELSE Reply(200,
               [assertion |-> Null,
                expiresAt |-> m[r.id].expiresAt,
                challenge |-> m[r.id].challenge],
               m)

\* part_002:53-71
GetHandler(m, r, t) ==
    IF ~MapHas(m, r.id)
    THEN Reply(404, Error("Session not found or expired"), m)
    ELSE IF Expired(m[r.id], t)
    THEN Reply(404, Error("Session expired"), MapDelete(m, r.id))
    ELSE Reply(200,
               [assertion |-> m[r.id].assertion,
                expiresAt |-> m[r.id].expiresAt,
                challenge |-> m[r.id].challenge],
               m)

\* mutant: the one-time check is missing
AlreadyStoredNever(session) == FALSE

\* part_002:94   if (session.assertion)
AlreadyStored(session) == session.assertion # Null

\* mutant: the assertion is set on a copy and the Map keeps the old session
WithAssertionLost(m, id, a) == m

\* mutant: storing the assertion gives the session another TTL
WithAssertionRenewed(m, id, a) ==
    MapSet(m, id, [m[id] EXCEPT !.assertion = a, !.expiresAt = @ + SESSION_TTL])

\* part_002:98-99
WithAssertion(m, id, a) == MapSet(m, id, [m[id] EXCEPT !.assertion = a])

\* mutant: the handler does not look at expiresAt
StoreHandlerNoExpiry(m, r, t) ==
    IF ~MapHas(m, r.id)
    THEN Reply(404, Error("Session not found or expired"), m)
    ELSE IF r.body = BodyNull THEN Reply(500, Error("Internal Server Error"), m)
    ELSE IF InvalidString(r.assertion) THEN Reply(400, Error("Invalid assertion"), m)
    ELSE IF m[r.id].assertion # Null
    THEN Reply(409, Error("Assertion already stored"), m)
    ELSE Reply(200, [success |-> TRUE],
               MapSet(m, r.id, [m[r.id] EXCEPT !.assertion = r.assertion]))

\* part_002:74-102
StoreHandler(m, r, t) ==
    IF ~MapHas(m, r.id)
    THEN Reply(404, Error("Session not found or expired"), m)
    ELSE IF Expired(m[r.id], t)
    THEN Reply(404, Error("Session expired"), MapDelete(m, r.id))
    \* destructuring null throws outside any try block: the framework
    \* answers 500
    ELSE IF r.body = BodyNull THEN Reply(500, Error("Internal Server Error"), m)
    ELSE IF InvalidString(r.assertion) THEN Reply(400, Error("Invalid assertion"), m)
    ELSE IF AlreadyStored(m[r.id])
    THEN Reply(409, Error("Assertion already stored"), m)
    ELSE Reply(200, [success |-> TRUE], WithAssertion(m, r.id, r.assertion))

\* part_002:33-105
IdHandler(m, r, t) ==
    IF r.method = "OPTIONS" THEN Reply(200, Error(""), m)
    ELSE IF InvalidString(r.id) THEN Reply(400, Error("Invalid session ID"), m)
    ELSE IF r.method = "GET" THEN GetHandler(m, r, t)
    ELSE IF r.method = "POST" THEN StoreHandler(m, r, t)
    ELSE Reply(405, Error("Method not allowed"), m)

(***************************************************************************)
(* The periodic sweep   (part_001:24-32)                                   *)
(***************************************************************************)
\* mutant: the sweep removes a session at its deadline already
SweepStoreEarly(m, t) == [x \in {i \in DOMAIN m : t < m[i].expiresAt} |-> m[x]]

\* part_001:26-31
SweepStore(m, t) == [x \in {i \in DOMAIN m : ~Expired(m[i], t)} |-> m[x]]

\* a responder that has sent nothing yet
NoRace == [kind |-> "none", id |-> Undefined, status |-> 1, sawNull |-> FALSE]

NoExchange ==
    [seq |-> 0, route |-> "none", method |-> "none", status |-> 0, body |-> None]

(***************************************************************************)
(* verifyAssertion   (lib/webauthn.ts, part_000:174-354)                   *)
(*                                                                         *)
(* A base64url string is a record: b64 tells whether base64urlDecode       *)
(* returns ("ok"), atob throws on it ("malformed"), or the field is absent *)
(* ("undefined": reading .length of undefined throws).                     *)
(***************************************************************************)
\* window.location.origin of the verifying page
ExpectedOrigin == "https://notes.example"

Origins == {ExpectedOrigin, "https://evil.example", Undefined}

Types == {"webauthn.get", "webauthn.create", Undefined}

\* challenges as byte arrays
ChallengeBytes == {<<1, 2>>, <<1, 3>>, <<1>>}

\* key pairs; the stored public key is an SPKI of one of these kinds
KeyIds == {"k1", "k2"}

SpkiKinds == {"ec-p256", "rsa", "garbage", "empty"}

B64States == {"ok", "malformed", "undefined"}

\* base64urlDecode returns instead of throwing (part_000:7, crypto.ts:185-196)
Decodes(f) == f.b64 = "ok"

\* SHA-256, as an injective function
Sha256(x) == <<"sha256", x>>

\* part_000:233-240   authenticatorData || hash(clientDataJSON)
SignedData(authData, clientDataJSON) == <<authData.bytes, Sha256(clientDataJSON)>>

\* mutant: lengths are not compared, the loop runs over the first array
arrayBuffersEqualPrefix(a, b) ==
    \A i \in 1..Len(a) : i <= Len(b) => a[i] = b[i]

\* part_000:340-354
arrayBuffersEqual(a, b) ==
    IF Len(a) # Len(b) THEN FALSE
    ELSE \A i \in 1..Len(a) : a[i] = b[i]

\* part_000:267-295: ECDSA P-256 is tried first, then RSASSA-PKCS1-v1_5;
\* ok = FALSE when the second import throws as well
importPublicKey(spki) ==
    IF spki.kind = "ec-p256" THEN [ok |-> TRUE, name |-> "ECDSA", key |-> spki.key]
    ELSE IF spki.kind = "rsa"
    THEN [ok |-> TRUE, name |-> "RSASSA-PKCS1-v1_5", key |-> spki.key]
    ELSE [ok |-> FALSE, name |-> "none", key |-> spki.key]

\* a signature made with the private key of sig.signer over sig.payload
SignatureValid(key, sig, data) == sig.signer = key.key /\ sig.payload = data

\* what a run of the function body did: out is "true", "false" or "throw";
\* imported and verified tell whether importPublicKey and
\* crypto.subtle.verify were called; log is the console.error message of
\* the check that returned false
Outcome(out, imported, verified) ==
    [out |-> out, imported |-> imported, verified |-> verified, log |-> "none"]

\* part_000:211,218,224   console.error(msg); return false
Rejected(msg) ==
    [out |-> "false", imported |-> FALSE, verified |-> FALSE, log |-> msg]

\* mutant: the public key is decoded and imported before the challenge,
\* origin and type checks
VerifyBodyKeyFirst(assertion, publicKeyBytes, expectedChallenge) ==
    LET clientDataJSON == assertion.clientDataJSON
        authenticatorData == assertion.authenticatorData
        signature == assertion.signature
        publicKey == importPublicKey(publicKeyBytes)
    IN
    IF ~Decodes(clientDataJSON) \/ ~Decodes(authenticatorData) \/ ~Decodes(signature)
    THEN Outcome("throw", FALSE, FALSE)
    ELSE IF clientDataJSON.json = "syntax-error" THEN Outcome("throw", FALSE, FALSE)
    ELSE IF ~Decodes(publicKeyBytes) THEN Outcome("throw", FALSE, FALSE)
    ELSE IF ~publicKey.ok THEN Outcome("throw", TRUE, FALSE)
    ELSE IF clientDataJSON.json = "null" THEN Outcome("throw", TRUE, FALSE)
    ELSE IF ~Decodes(clientDataJSON.challenge) THEN Outcome("throw", TRUE, FALSE)
    ELSE IF ~arrayBuffersEqual(clientDataJSON.challenge.bytes, expectedChallenge)
    THEN [Rejected("Challenge mismatch") EXCEPT !.imported = TRUE]
    ELSE IF clientDataJSON.origin # ExpectedOrigin
    THEN [Rejected("Origin mismatch") EXCEPT !.imported = TRUE]
    ELSE IF clientDataJSON.type # "webauthn.get"
    THEN [Rejected("Invalid type") EXCEPT !.imported = TRUE]
    ELSE IF publicKey.name # "ECDSA" THEN Outcome("throw", TRUE, TRUE)
    ELSE IF SignatureValid(publicKey, signature,
                           SignedData(authenticatorData, clientDataJSON))
    THEN Outcome("true", TRUE, TRUE)
    ELSE Outcome("false", TRUE, TRUE)

\* part_000:200-256, the body of the try block
VerifyBody(assertion, publicKeyBytes, expectedChallenge) ==
    LET clientDataJSON == assertion.clientDataJSON
        authenticatorData == assertion.authenticatorData
        signature == assertion.signature
    IN
    \* 200-201  deserializeAssertion decodes the three fields
    IF ~Decodes(clientDataJSON) \/ ~Decodes(authenticatorData) \/ ~Decodes(signature)
    THEN Outcome("throw", FALSE, FALSE)
    \* 204-206  JSON.parse
    ELSE IF clientDataJSON.json = "syntax-error" THEN Outcome("throw", FALSE, FALSE)
    \* 209  clientData.challenge of null, base64urlDecode of the challenge
    ELSE IF clientDataJSON.json = "null" THEN Outcome("throw", FALSE, FALSE)
    ELSE IF ~Decodes(clientDataJSON.challenge) THEN Outcome("throw", FALSE, FALSE)
    \* 210-213
    ELSE IF ~arrayBuffersEqual(clientDataJSON.challenge.bytes, expectedChallenge)
    THEN Rejected("Challenge mismatch")
    \* 216-220
    ELSE IF clientDataJSON.origin # ExpectedOrigin THEN Rejected("Origin mismatch")
    \* 223-226
    ELSE IF clientDataJSON.type # "webauthn.get" THEN Rejected("Invalid type")
    \* 243  base64urlDecode(publicKeyBytes)
    ELSE IF ~Decodes(publicKeyBytes) THEN Outcome("throw", FALSE, FALSE)
    ELSE LET publicKey == importPublicKey(publicKeyBytes) IN
         IF ~publicKey.ok THEN Outcome("throw", TRUE, FALSE)
         \* 246-254  verify with { name: 'ECDSA' } throws InvalidAccessError
         \* on a key of another algorithm
         ELSE IF publicKey.name # "ECDSA" THEN Outcome("throw", TRUE, TRUE)
         ELSE IF SignatureValid(publicKey, signature,
                                SignedData(authenticatorData, clientDataJSON))
         THEN Outcome("true", TRUE, TRUE)
         ELSE Outcome("false", TRUE, TRUE)

\* mutant: the body runs outside the try block
verifyAssertionUncaught(assertion, publicKeyBytes, expectedChallenge) ==
    VerifyBody(assertion, publicKeyBytes, expectedChallenge)

\* part_000:194-261: the catch block turns every exception into false
verifyAssertion(assertion, publicKeyBytes, expectedChallenge) ==
    LET done == VerifyBody(assertion, publicKeyBytes, expectedChallenge) IN
        IF done.out = "throw" THEN [done EXCEPT !.out = "false"] ELSE done

(***************************************************************************)
(* Arguments of verifyAssertion                                            *)
(***************************************************************************)
ChallengeFields ==
    {[b64 |-> "ok", bytes |-> b] : b \in ChallengeBytes}
    \cup {[b64 |-> x, bytes |-> <<>>] : x \in {"malformed", "undefined"}}

\* response.clientDataJSON: a JSON object, the JSON value null, text that is
\* no JSON, or a field that does not decode
ClientDataFields ==
    {[b64 |-> "ok", json |-> "object", challenge |-> c, origin |-> o, type |-> t] :
        c \in ChallengeFields, o \in Origins, t \in Types}
    \cup
    {[b64 |-> x[1], json |-> x[2],
      challenge |-> [b64 |-> "undefined", bytes |-> <<>>],
      origin |-> Undefined, type |-> Undefined] :
        x \in {<<"ok", "null">>, <<"ok", "syntax-error">>,
               <<"malformed", "none">>, <<"undefined", "none">>}}

AuthDataFields == {[b64 |-> x, bytes |-> <<9>>] : x \in B64States}

\* response.signature: made by a key pair over the payload of this
\* assertion or over another payload, or a field that does not decode
SignatureFields(authData, clientData) ==
    {[b64 |-> "ok", signer |-> k, payload |-> p] :
        k \in KeyIds,
        p \in {SignedData(authData, clientData),
               SignedData([authData EXCEPT !.bytes = <<8>>], clientData)}}
    \cup
    {[b64 |-> x, signer |-> "none", payload |-> <<>>] :
        x \in {"malformed", "undefined"}}

PublicKeyFields ==
    {[b64 |-> "ok", kind |-> kd, key |-> "k1"] : kd \in SpkiKinds}
    \cup {[b64 |-> "malformed", kind |-> "garbage", key |-> "k1"]}

NoCall ==
    [kind |-> "none"]

NoResult == Outcome("none", FALSE, FALSE)

(***************************************************************************)
(* lib/crypto.ts: text, base64url and AES-GCM                              *)
(***************************************************************************)
\* UTF-16 code units of a JavaScript string: a letter, U+FEFF, and the two
\* halves of the surrogate pair of U+1F600
CodeUnits == {"a", "FEFF", "D83D", "DE00"}

\* the JavaScript strings of at most MaxText code units
Strings == UNION {[1..n -> CodeUnits] : n \in 0..MaxText}

RECURSIVE Utf8Encode(_)
\* crypto.ts:119,128  new TextEncoder().encode(str): the string is converted
\* to scalar values first, so a surrogate without its partner becomes
\* U+FFFD; then UTF-8
Utf8Encode(str) ==
    IF str = <<>> THEN <<>>
    ELSE IF Len(str) >= 2 /\ str[1] = "D83D" /\ str[2] = "DE00"
    THEN <<240, 159, 152, 128>> \o Utf8Encode(SubSeq(str, 3, Len(str)))
    ELSE IF str[1] \in {"D83D", "DE00"}
    THEN <<239, 191, 189>> \o Utf8Encode(Tail(str))
    ELSE IF str[1] = "FEFF"
    THEN <<239, 187, 191>> \o Utf8Encode(Tail(str))
    ELSE <<97>> \o Utf8Encode(Tail(str))

RECURSIVE Utf8DecodeFrom(_, _)
\* UTF-8 to code units from byte i on; a byte that starts no sequence
\* becomes U+FFFD (the decoder is not fatal)
Utf8DecodeFrom(bytes, i) ==
    IF i > Len(bytes) THEN <<>>
    ELSE IF bytes[i] = 97 THEN <<"a">> \o Utf8DecodeFrom(bytes, i + 1)
    ELSE IF i + 2 <= Len(bytes) /\ SubSeq(bytes, i, i + 2) = <<239, 187, 191>>
    THEN <<"FEFF">> \o Utf8DecodeFrom(bytes, i + 3)
    ELSE IF i + 2 <= Len(bytes) /\ SubSeq(bytes, i, i + 2) = <<239, 191, 189>>
    THEN <<"FFFD">> \o Utf8DecodeFrom(bytes, i + 3)
    ELSE IF i + 3 <= Len(bytes) /\ SubSeq(bytes, i, i + 3) = <<240, 159, 152, 128>>
    THEN <<"D83D", "DE00">> \o Utf8DecodeFrom(bytes, i + 4)
    ELSE <<"FFFD">> \o Utf8DecodeFrom(bytes, i + 1)

\* the byte order mark
HasBOM(bytes) == Len(bytes) >= 3 /\ SubSeq(bytes, 1, 3) = <<239, 187, 191>>

\* crypto.ts:150,161  new TextDecoder().decode(buffer): ignoreBOM is false,
\* so a byte order mark at the start is consumed and not returned
Utf8Decode(bytes) ==
    IF HasBOM(bytes) THEN Utf8DecodeFrom(bytes, 4) ELSE Utf8DecodeFrom(bytes, 1)

\* crypto.ts:177-180  the base64url text of a buffer.  text tells the text
\* base64urlEncode writes ("canonical") from another text that decodes to
\* the same bytes ("alias")
base64urlEncode(bytes) == [b64 |-> "ok", bytes |-> bytes, text |-> "canonical"]

\* crypto.ts:185-196  atob throws on a text that is no base64
base64urlDecode(str) == IF Decodes(str) THEN str.bytes ELSE "throw"

\* AES-GCM-256 output under a key and an iv: ciphertext and 16-byte tag.
\* tag = "forged" marks a buffer that differs from the one encrypt returned
Sealed(key, iv, data) == [key |-> key, iv |-> iv, data |-> data, tag |-> "ok"]

Forged(buffer) == [buffer EXCEPT !.tag = "forged"]

\* mutant: the tag is not verified
OpensUnchecked(buffer, key, iv) == TRUE

\* crypto.subtle.decrypt / unwrapKey: the tag verifies only for the buffer
\* encrypt returned, the key and the iv
Opens(buffer, key, iv) == buffer.tag = "ok" /\ buffer.key = key /\ buffer.iv = iv

\* the AES-256 keys generateMasterKey can return
MasterKeys == {"master-key", "other-key"}

\* mutant: the same bytes on every call
generateRandomBytesFixed(drawn) == 1

\* crypto.ts:168-172  crypto.getRandomValues, as an ideal source: bytes that
\* were not returned before.  drawn is the log of the earlier calls.
generateRandomBytes(drawn) == Len(drawn) + 1

\* an entry of that log
Draw(use, key, bytes) == [use |-> use, key |-> key, bytes |-> bytes]

\* a library call returned value, or threw (the promise rejected)
Returns(value) == [out |-> "returned", value |-> value]

Throws(error) == [out |-> "threw", value |-> error]

\* crypto.ts:115-135  key is the parameter masterKey; iv is what
\* generateRandomBytes(12) returned at line 120
encryptText(plaintext, key, iv) ==
    Returns([ciphertext |-> base64urlEncode(Sealed(key, iv, Utf8Encode(plaintext))),
             iv |-> base64urlEncode(iv)])

\* crypto.ts:145-162
decryptText(ciphertext, iv, key) ==
    \* 155
    IF ~Decodes(iv) THEN Throws("InvalidCharacterError")
    \* 158
    ELSE IF ~Decodes(ciphertext) THEN Throws("InvalidCharacterError")
    \* 152-159
    ELSE IF ~Opens(base64urlDecode(ciphertext), key, base64urlDecode(iv))
    THEN Throws("OperationError")
    \* 161
    ELSE Returns(Utf8Decode(base64urlDecode(ciphertext).data))

\* app/page.tsx:343, 353  setup draws the salt first and then the iv of
\* wrapKey; other bytes
SetupSalt == generateRandomBytes(<<>>)

SetupIv == generateRandomBytes(<<Draw("salt", "none", SetupSalt)>>)

AlteredIv == SetupIv + 1

\* the iv wrapKey drew at a setup that came after the first
SecondIv == AlteredIv + 1

\* mutant: the iv that is returned is not the one that was used
wrapKeyStaleIv(key, wrappingKey, iv) ==
    Returns([wrappedKey |-> Sealed(wrappingKey, iv, key), iv |-> SetupIv])

\* crypto.ts:63-80  iv is what generateRandomBytes(12) returned at line 67
wrapKey(key, wrappingKey, iv) ==
    Returns([wrappedKey |-> Sealed(wrappingKey, iv, key), iv |-> iv])

(***************************************************************************)
(* Passphrase unlock   (components/UnlockModal.tsx, part_002:124-183;      *)
(* lib/crypto.ts:28-106; Home, app/page.tsx:17-68)                         *)
(***************************************************************************)
\* the passphrase chosen at setup, and another one
Passphrases == {"correct horse", "wrong horse"}

SetupPassphrase == "correct horse"

\* crypto.ts:23  the iteration count used at setup
SetupIterations == 200000

\* a base64url field of the stored record: as written at setup, decoding to
\* other bytes, or not decodable
FieldStates == {"intact", "altered", "malformed"}

\* mutant: the salt is not used
deriveKeyIgnoringSalt(passphrase, salt, iterations) ==
    <<"pbkdf2", passphrase, "intact", iterations>>

\* crypto.ts:28-54  PBKDF2 is a deterministic function of its three inputs
deriveKeyFromPassphrase(passphrase, salt, iterations) ==
    <<"pbkdf2", passphrase, salt, iterations>>

\* the wrapping key of setup
SetupWrappingKey == deriveKeyFromPassphrase(SetupPassphrase, "intact", SetupIterations)

\* app/page.tsx:353  what wrapKey returned at setup
SetupWrapped == wrapKey("master-key", SetupWrappingKey, SetupIv).value

\* app/page.tsx:341-353  a setup that comes after the first generates
\* another master key and another salt, and wraps the one under the key
\* derived with the other
SecondWrapped ==
    wrapKey("other-key",
            deriveKeyFromPassphrase(SetupPassphrase, "second", SetupIterations),
            SecondIv).value

\* part_002:149  base64urlDecode(masterKeyData.wrappedKey) of a stored field
StoredWrappedKey(field) ==
    IF field = "intact" THEN SetupWrapped.wrappedKey
    ELSE IF field = "second" THEN SecondWrapped.wrappedKey
    ELSE Forged(SetupWrapped.wrappedKey)

\* part_002:153  base64urlDecode(masterKeyData.iv)
StoredIv(field) ==
    IF field = "intact" THEN SetupWrapped.iv
    ELSE IF field = "second" THEN SecondWrapped.iv
    ELSE AlteredIv

\* mutant: the unwrapped bytes are taken without the tag being checked
unwrapKeyUnchecked(wrappedKey, wrappingKey, iv) == wrappedKey.data

\* crypto.ts:89-106  AES-GCM: the tag verifies only for the key and the iv of
\* wrapKey and for the unaltered ciphertext
unwrapKey(wrappedKey, wrappingKey, iv) ==
    IF Opens(wrappedKey, wrappingKey, iv) THEN wrappedKey.data ELSE "throw"

\* part_000:387-392  MasterKeyData, or undefined when nothing is stored
MasterKeyDatas ==
    {[stored |-> TRUE, wrappedKey |-> w, salt |-> sa, iv |-> i, iterations |-> n] :
        w \in FieldStates, sa \in FieldStates, i \in FieldStates,
        n \in {SetupIterations, 100000}}
    \cup
    {[stored |-> FALSE, wrappedKey |-> "intact", salt |-> "intact", iv |-> "intact",
      iterations |-> SetupIterations]}

\* mutant: the message of the exception is shown
UnlockErrorDetailed(cause) == cause

\* part_002:158-160  every exception ends in the same message
UnlockError(cause) == "Incorrect passphrase or corrupted data"

\* part_002:129-164  handlePassphraseUnlock: key is what onUnlock receives,
\* Null when onUnlock is not called
Unlocked(key) == [key |-> key, error |-> ""]

UnlockFailed(cause) == [key |-> Null, error |-> UnlockError(cause)]

handlePassphraseUnlock(passphrase, data) ==
    \* 136-139
    IF ~data.stored THEN UnlockFailed("No master key found. Please set up the app first.")
    \* 142-146  base64urlDecode(masterKeyData.salt)
    ELSE IF data.salt = "malformed" THEN UnlockFailed("InvalidCharacterError")
    \* 149  base64urlDecode(masterKeyData.wrappedKey)
    ELSE IF data.wrappedKey = "malformed" THEN UnlockFailed("InvalidCharacterError")
    \* 153  base64urlDecode(masterKeyData.iv)
    ELSE IF data.iv = "malformed" THEN UnlockFailed("InvalidCharacterError")
    ELSE LET wrappingKey == deriveKeyFromPassphrase(passphrase, data.salt, data.iterations)
             key == unwrapKey(StoredWrappedKey(data.wrappedKey), wrappingKey,
                              StoredIv(data.iv))
         IN  IF key = "throw" THEN UnlockFailed("OperationError") ELSE Unlocked(key)

\* the stored WebAuthn credential: none, the record registerCredential
\* builds (part_000:89-97, 316: the public key is an empty buffer), or a
\* record that holds the SPKI of a key
Credentials ==
    {[stored |-> FALSE, publicKey |-> [b64 |-> "ok", kind |-> "empty", key |-> "k1"]]}
    \cup
    {[stored |-> TRUE, publicKey |-> [b64 |-> "ok", kind |-> kd, key |-> "k1"]] :
        kd \in {"empty", "ec-p256"}}

\* part_002:166-183  handleBiometricUnlock only sets a message
handleBiometricUnlock(cred) ==
    IF ~cred.stored THEN "Biometric authentication failed"
    ELSE "Biometric authentication succeeded, but you still need to enter your passphrase on first use after setup."

NoModal == [error |-> "", submitted |-> Undefined]

(***************************************************************************)
(* Notes and backups   (lib/indexeddb.ts, part_000:370-718;                *)
(* NoteEditor, part_003; Home and Setup, app/page.tsx)                     *)
(***************************************************************************)
\* part_000:86-98  the record registerCredential stores: its publicKey is
\* the encoding of the empty buffer extractPublicKeyFromAttestation returns
\* (part_000:301-317)
RegisteredCredential ==
    [stored |-> TRUE, publicKey |-> [b64 |-> "ok", kind |-> "empty", key |-> "k1"]]

\* part_000:378-385  a record of the notes store; its key is id
Note(id, ciphertext, iv, createdAt, updatedAt) ==
    [id |-> id, ciphertext |-> ciphertext, iv |-> iv,
     createdAt |-> createdAt, updatedAt |-> updatedAt]

NoteIds == {"n1", "n2"}

\* the texts typed into the editor: the Save button is disabled for a blank
\* text (part_003:117)
NoteTexts == {str \in Strings : str # <<>> /\ \A i \in DOMAIN str : str[i] = "a"}

\* part_003:52  a string on the left of || gives way when it is empty
FalsyString(str) == str = ""

\* part_003:55  a number on the left of || gives way when it is 0
FalsyNumber(n) == n = 0

\* part_003:38-57  the record handleSave builds: note is the prop (id = ""
\* stands for null), t is Date.now(), iv the bytes encryptText draws, uuid
\* what uuidv4() returns
handleSave(note, content, key, t, iv, uuid) ==
    LET encrypted == encryptText(content, key, iv).value
    IN  Note(IF FalsyString(note.id) THEN uuid ELSE note.id,
             encrypted.ciphertext,
             encrypted.iv,
             IF FalsyNumber(note.createdAt) THEN t ELSE note.createdAt,
             t)

\* the prop of an editor opened for a new note
NoNote == Note("", base64urlEncode(Sealed("none", 0, <<>>)), base64urlEncode(0), 0, 0)

\* part_000:491-494  db.put('notes', note)
saveNote(store, note) == MapSet(store, note.id, note)

\* a note of a backup file, written by another installation with the same
\* master key.  typed tells whether every field has the type NoteSchema
\* requires (part_000:426-433)
BackupNote(id, createdAt, typed) ==
    [note |-> Note(id, encryptText(<<"a">>, "master-key", 0).value.ciphertext,
                   encryptText(<<"a">>, "master-key", 0).value.iv,
                   createdAt, createdAt),
     typed |-> typed]

\* the notes arrays of the backup files
BackupNoteLists ==
    {{}, {BackupNote("n1", 1, TRUE)}, {BackupNote("n1", 0, TRUE)},
     {BackupNote("n2", 1, TRUE), BackupNote("n1", 1, FALSE)}}

\* the masterKeyData of a backup file: null, absent, or an object.  typed
\* tells whether wrappedKey, salt and iv are strings and iterations is a
\* number (part_000:435-440)
BackupKeys ==
    {[kind |-> k, typed |-> TRUE, wrappedKey |-> "intact", salt |-> "intact",
      iv |-> "intact", iterations |-> SetupIterations] : k \in {"null", "undefined"}}
    \cup
    {[kind |-> "object", typed |-> TRUE, wrappedKey |-> "intact", salt |-> sa,
      iv |-> "intact", iterations |-> n] :
        sa \in {"intact", "altered"}, n \in {SetupIterations, 100000, 99999}}
    \cup
    {[kind |-> "object", typed |-> FALSE, wrappedKey |-> "intact", salt |-> "altered",
      iv |-> "intact", iterations |-> SetupIterations]}

\* what JSON.parse(text) gives for the chosen file.  typed tells whether the
\* value is an object with a number version, a number exportedAt and an
\* array notes (part_000:442-447)
BackupFiles ==
    {[json |-> "value", typed |-> TRUE, version |-> v, masterKeyData |-> k, notes |-> ns] :
        v \in {1, 2}, k \in BackupKeys, ns \in BackupNoteLists}
    \cup
    {[json |-> j, typed |-> FALSE, version |-> 1, masterKeyData |-> k, notes |-> {}] :
        j \in {"value", "syntax-error"},
        k \in {b \in BackupKeys : b.kind = "object" /\ b.salt = "altered"
                                   /\ b.iterations = SetupIterations}}

\* nothing was exported yet
NoBackup ==
    [json |-> "none", typed |-> FALSE, version |-> 0,
     masterKeyData |-> CHOOSE b \in BackupKeys : b.kind = "null", notes |-> {}]

\* part_000:435-440  MasterKeyDataSchema
MasterKeyDataSchema(k) == k.typed /\ k.iterations >= 100000

\* part_000:442-447  BackupDataSchema
BackupDataSchema(data) ==
    /\ data.typed
    /\ \/ data.masterKeyData.kind = "null"
       \/ data.masterKeyData.kind = "object" /\ MasterKeyDataSchema(data.masterKeyData)
    /\ \A n \in data.notes : n.typed

\* the record of the masterKey store that holds the fields of k
StoredKey(k) ==
    [stored |-> TRUE, wrappedKey |-> k.wrappedKey, salt |-> k.salt, iv |-> k.iv,
     iterations |-> k.iterations]

\* the record saveMasterKeyData is called with
KeyArgument(record, typed) ==
    [kind |-> "object", typed |-> typed, wrappedKey |-> record.wrappedKey,
     salt |-> record.salt, iv |-> record.iv, iterations |-> record.iterations]

\* mutant: the record is written as it comes
saveMasterKeyDataUnvalidated(k, current) == Returns(StoredKey(k))

\* part_000:525-529  the value is the record of the store afterwards
saveMasterKeyData(k, current) ==
    IF ~MasterKeyDataSchema(k) THEN Throws("ZodError") ELSE Returns(StoredKey(k))

\* part_000:632
KeystoreMismatch ==
    "Keystore mismatch: This backup was created with a different master key/password and cannot be merged."

Valid == [valid |-> TRUE, reason |-> ""]

Invalid(reason) == [valid |-> FALSE, reason |-> reason]

\* mutant: the salts are not compared
validateBackupAnySalt(data, current) ==
    IF ~BackupDataSchema(data) THEN Invalid("Invalid backup file format")
    ELSE IF data.version # 1 THEN Invalid("Unsupported backup version")
    ELSE Valid

\* part_000:607-638
validateBackup(data, current) ==
    IF ~BackupDataSchema(data) THEN Invalid("Invalid backup file format")
    ELSE IF data.version # 1 THEN Invalid("Unsupported backup version")
    ELSE IF /\ current.stored
            /\ data.masterKeyData.kind = "object"
            /\ current.salt # data.masterKeyData.salt
    THEN Invalid(KeystoreMismatch)
    ELSE Valid

RECURSIVE PutAll(_, _)
\* part_000:672-675  saveNote for every note of the array
PutAll(store, ns) ==
    IF ns = {} THEN store
    ELSE LET n == CHOOSE x \in ns : TRUE
         IN  PutAll(saveNote(store, n.note), ns \ {n})

\* part_000:591-601  exportBackup
exportBackup(current, store) ==
    [json |-> "value", typed |-> TRUE, version |-> 1,
     masterKeyData |-> IF current.stored THEN KeyArgument(current, TRUE)
                       ELSE CHOOSE b \in BackupKeys : b.kind = "null",
     notes |-> {[note |-> store[id], typed |-> TRUE] : id \in DOMAIN store}]

\* what an import leaves in the two stores
Imported(out, error, current, store) ==
    [out |-> out, value |-> error, masterKeyData |-> current, notes |-> store]

\* mutant: the notes of the store are kept in either mode
importBackupMerging(data, mergeNotes, current, store) ==
    IF ~BackupDataSchema(data) THEN Imported("threw", "ZodError", current, store)
    ELSE IF data.version # 1
    THEN Imported("threw", "Unsupported backup version", current, store)
    ELSE Imported("returned", "",
                  IF data.masterKeyData.kind = "object"
                  THEN StoredKey(data.masterKeyData) ELSE current,
                  PutAll(store, data.notes))

\* mutant: the data is written without being parsed
importBackupUnparsed(data, mergeNotes, current, store) ==
    Imported("returned", "",
             IF data.masterKeyData.kind = "object"
             THEN StoredKey(data.masterKeyData) ELSE current,
             PutAll(IF mergeNotes THEN store ELSE EmptyMap, data.notes))

\* part_000:646-676
importBackup(data, mergeNotes, current, store) ==
    \* 651
    IF ~BackupDataSchema(data) THEN Imported("threw", "ZodError", current, store)
    \* 653-655
    ELSE IF data.version # 1
    THEN Imported("threw", "Unsupported backup version", current, store)
    ELSE LET saved == IF data.masterKeyData.kind = "object"
                      THEN saveMasterKeyData(data.masterKeyData, current)
                      ELSE Returns(current)
         IN  \* 660-662
             IF saved.out = "threw" THEN Imported("threw", saved.value, current, store)
             \* 665-675
             ELSE Imported("returned", "", saved.value,
                           PutAll(IF mergeNotes THEN store ELSE EmptyMap, data.notes))

\* app/page.tsx:98-131  what the onchange handler of handleImport does with
\* the chosen file: the alert it shows and what it leaves in the stores
handleImport(file, current, store) ==
    \* 108-113
    IF file.json = "syntax-error"
    THEN Imported("alert", <<"Invalid JSON file">>, current, store)
    ELSE LET validation == validateBackup(file, current) IN
         \* 116-120
         IF ~validation.valid
         THEN Imported("alert", <<"Import failed", validation.reason>>, current, store)
         ELSE LET done == importBackup(file, TRUE, current, store) IN
              \* 125-128
              IF done.out = "threw"
              THEN Imported("alert", <<"Failed to import backup. Please check the file format.">>,
                            done.masterKeyData, done.notes)
              \* 122-124
              ELSE Imported("alert", <<"Backup imported successfully!">>,
                            done.masterKeyData, done.notes)

\* the number of characters of a passphrase
Length(passphrase) == IF passphrase = "correct horse" THEN 13 ELSE 11

\* app/page.tsx:346-364  the record handleSetup passes to saveMasterKeyData
SetupRecord ==
    [stored |-> TRUE, wrappedKey |-> "intact", salt |-> "intact", iv |-> "intact",
     iterations |-> SetupIterations]

\* the record a setup passes to saveMasterKeyData when a record is stored
\* already: generateMasterKey and generateRandomBytes give other values
SecondRecord ==
    [stored |-> TRUE, wrappedKey |-> "second", salt |-> "second", iv |-> "second",
     iterations |-> SetupIterations]

\* what handleSetup leaves: the error it shows, the two stores and the page
SetupDone(error, current, cred, route) ==
    [error |-> error, masterKeyData |-> current, credential |-> cred, page |-> route]

\* mutant: the form is not validated
handleSetupUnchecked(passphrase, confirmPassphrase, enableBiometric, registered, current, cred) ==
    SetupDone("", StoredKey(KeyArgument(SetupRecord, TRUE)),
              IF enableBiometric /\ registered THEN RegisteredCredential ELSE cred, "/")

\* app/page.tsx:326-391  handleSetup.  registered tells whether
\* registerCredential succeeds
handleSetup(passphrase, confirmPassphrase, enableBiometric, registered, current, cred) ==
    \* 331-334
    IF Length(passphrase) < 12
    THEN SetupDone("Passphrase must be at least 12 characters", current, cred, "/setup")
    \* 336-339
    ELSE IF passphrase # confirmPassphrase
    THEN SetupDone("Passphrases do not match", current, cred, "/setup")
    ELSE LET record == IF current.stored THEN SecondRecord ELSE SetupRecord
             saved == saveMasterKeyData(KeyArgument(record, TRUE), current)
         IN
         \* 385-387
         IF saved.out = "threw"
         THEN SetupDone("Setup failed. Please try again.", current, cred, "/setup")
         \* 366-383
         ELSE SetupDone("", saved.value,
                        IF enableBiometric /\ registered THEN RegisteredCredential ELSE cred,
                        "/")

(***************************************************************************)
(* QR unlock page   (QRUnlock, app/page.tsx:506-693)                       *)
(***************************************************************************)
\* app/page.tsx:509  the challenge the page generated, as base64url string
OwnChallenge == [b64 |-> "ok", bytes |-> <<1, 2>>]

\* another challenge
OtherChallenge == [b64 |-> "ok", bytes |-> <<1, 3>>]

\* part_000:146-168  a serialized assertion made on the page's origin for a
\* challenge with the private key of signer
SerializedAssertion(challenge, signer) ==
    LET clientData == [b64 |-> "ok", json |-> "object", challenge |-> challenge,
                       origin |-> ExpectedOrigin, type |-> "webauthn.get"]
        authData == [b64 |-> "ok", bytes |-> <<9>>]
    IN  [clientDataJSON |-> clientData,
         authenticatorData |-> authData,
         signature |-> [b64 |-> "ok", signer |-> signer,
                        payload |-> SignedData(authData, clientData)]]

\* data.assertion of a poll response: null, a string that is no JSON, or the
\* JSON of a serialized assertion
WireAssertions ==
    {[json |-> "null"], [json |-> "syntax-error"]}
    \cup
    {[json |-> "object", assertion |-> SerializedAssertion(x[1], x[2])] :
        x \in {<<OwnChallenge, "k1">>, <<OwnChallenge, "k2">>,
               <<OtherChallenge, "k1">>}}

\* the challenge a relay session holds when the assertion was made for it
ChallengeOf(a) ==
    IF a.json = "object" THEN a.assertion.clientDataJSON.challenge ELSE OwnChallenge

\* what fetch(`/api/session/${sessionId}`) does: it rejects, resolves with a
\* status that is not ok, or resolves with { assertion, expiresAt, challenge }
PollResponses ==
    {[fetch |-> f, assertion |-> [json |-> "null"], challenge |-> OwnChallenge] :
        f \in {"rejected", "not-ok"}}
    \cup
    {[fetch |-> "ok", assertion |-> a, challenge |-> ChallengeOf(a)] :
        a \in WireAssertions}

\* a pollSession call whose fetch has not settled
Fetching ==
    [fetch |-> "pending", assertion |-> [json |-> "null"], challenge |-> OwnChallenge]

\* mutant: the assertion is checked against the challenge the relay returned
ExpectedChallengeOfRelay(response) == response.challenge.bytes

\* app/page.tsx:584  base64urlDecode(challenge) of the page's own state
ExpectedChallenge(response) == OwnChallenge.bytes

\* app/page.tsx:562-599  what one pollSession call does once fetch has
\* settled: verifies tells whether verifyAssertion is called, status is the
\* argument of setStatus ("none": setStatus is not called), redirect tells
\* whether the redirect timeout is set
PollOutcome(verifies, status, redirect) ==
    [verifies |-> verifies, status |-> status, redirect |-> redirect]

pollSession(response, cred) ==
    \* 564, 596-598: fetch rejected; 566-568: not ok
    IF response.fetch # "ok" THEN PollOutcome(FALSE, "none", FALSE)
    \* 572
    ELSE IF response.assertion.json = "null" THEN PollOutcome(FALSE, "none", FALSE)
    \* 574-578
    ELSE IF ~cred.stored THEN PollOutcome(FALSE, "error", FALSE)
    \* 580: JSON.parse throws, caught at 596
    ELSE IF response.assertion.json = "syntax-error"
    THEN PollOutcome(FALSE, "none", FALSE)
    \* 581-594
    ELSE IF verifyAssertion(response.assertion.assertion, cred.publicKey,
                            ExpectedChallenge(response)).out = "true"
    THEN PollOutcome(TRUE, "success", TRUE)
    ELSE PollOutcome(TRUE, "error", FALSE)

\* mutant: the countdown ends one tick late
CountdownOverLate(prev) == prev <= 0

\* app/page.tsx:529
CountdownOver(prev) == prev <= 1

\* the component is not mounted
NoQR ==
    [mounted |-> FALSE, status |-> "waiting", countdown |-> COUNTDOWN_START,
     pollTimer |-> FALSE, pollAt |-> 0,
     countdownTimer |-> FALSE, countdownAt |-> 0,
     create |-> "none", left |-> "none"]

\* app/page.tsx:508-543  the component after its first render and effect:
\* createSession is in flight and both intervals are set
MountedQR(t) ==
    [mounted |-> TRUE, status |-> "waiting", countdown |-> COUNTDOWN_START,
     pollTimer |-> TRUE, pollAt |-> t + POLL_INTERVAL,
     countdownTimer |-> TRUE, countdownAt |-> t + COUNTDOWN_INTERVAL,
     create |-> "sent", left |-> "none"]

\* app/page.tsx:539-542  the effect's cleanup, run when the page is left:
\* both intervals are cleared and the component's state is gone
Unmounted(q, how) == [NoQR EXCEPT !.left = how]

\* setStatus on a component that is no longer mounted has no effect
SetStatus(q, status) ==
    IF q.mounted /\ status # "none" THEN [q EXCEPT !.status = status] ELSE q

\* SessionTimer.tsx:16, 34-37  timeoutRef.current: no timeout is pending, or
\* one that is due at a time
NoTimeout == [set |-> FALSE, due |-> 0]

Timeout(due) == [set |-> TRUE, due |-> due]

\* mutant: an activity event leaves a pending timeout as it is
resetTimerOnce(ref, enabled, t) ==
    IF ~enabled THEN ref
    ELSE IF ref.set THEN ref ELSE Timeout(t + LOCK_TIMEOUT)

\* SessionTimer.tsx:19-38  resetTimer at time t: the pending timeout is
\* cleared and a new one is set.  The warning timeout only writes to the
\* console.
resetTimer(ref, enabled, t) ==
    IF ~enabled THEN ref ELSE Timeout(t + LOCK_TIMEOUT)

\* no page of the app is open
AppIdle ==
    /\ masterKeyData = [stored |-> FALSE]
    /\ credential = [stored |-> FALSE]
    /\ page = "none"
    /\ masterKey = Null
    /\ modal = NoModal
    /\ qr = NoQR
    /\ polls = <<>>
    /\ redirects = {}
    /\ phone = "none"
    /\ notes = EmptyMap
    /\ random = <<>>
    /\ timeoutRef = NoTimeout
    /\ showEditor = FALSE
    /\ lastActivity = 0
    /\ download = NoBackup

(***************************************************************************)
(* Initial states                                                          *)
(***************************************************************************)
\* the two modules are loaded: part_001:19 builds its own Map, part_002:21
\* finds global.sessionStore undefined and installs a second, empty Map
Init ==
    /\ now = 0
    /\ sessions = EmptyMap
    /\ sessionStore = EmptyMap
    /\ nextSweep = SWEEP_INTERVAL
    /\ last = NoExchange
    /\ race = [p \in Responders |-> NoRace]
    /\ call = NoCall
    /\ result = NoResult
    /\ AppIdle

\* global.sessionStore is process-wide ambient state and [id].ts adopts the
\* Map it finds there (part_002:21).  InitStore loads [id].ts on a Map that
\* already holds sessions as the create endpoint builds them.
SeededStores ==
    UNION {[S -> {NewSession(ch, 0) : ch \in Challenges}] :
              S \in {T \in SUBSET Ids : Cardinality(T) <= MAX_SESSIONS}}

InitStore ==
    /\ now = 0
    /\ sessions = EmptyMap
    /\ sessionStore \in SeededStores
    /\ nextSweep = SWEEP_INTERVAL
    /\ last = NoExchange
    /\ race = [p \in Responders |-> NoRace]
    /\ call = NoCall
    /\ result = NoResult
    /\ AppIdle

(***************************************************************************)
(* Actions                                                                 *)
(***************************************************************************)
\* Date.now() advances by one sweep interval, or by 1 ms past a multiple of
\* it: the clock reads k * 60000 and k * 60000 + 1
Tick(d) ==
    /\ d = 1 => now % SWEEP_INTERVAL = 0
    /\ d = SWEEP_INTERVAL => now \div SWEEP_INTERVAL < MaxIntervals
    /\ now' = now + d
    /\ UNCHANGED <<sessions, sessionStore, nextSweep, last, race>>
    /\ UNCHANGED <<verifyVars, appVars>>

\* mutant: the callback walks the Map of [id].ts
SweepAdopted ==
    /\ now >= nextSweep
    /\ sessionStore' = SweepStore(sessionStore, now)
    /\ nextSweep' = now + SWEEP_INTERVAL
    /\ UNCHANGED <<now, sessions, last, race>>
    /\ UNCHANGED <<verifyVars, appVars>>

\* the setInterval callback of part_001 runs; a timer never fires early
Sweep ==
    /\ now >= nextSweep
    /\ sessions' = SweepStore(sessions, now)
    /\ nextSweep' = now + SWEEP_INTERVAL
    /\ UNCHANGED <<now, sessionStore, last, race>>
    /\ UNCHANGED <<verifyVars, appVars>>

\* seq tells a handler run that repeats the previous response from no step
Exchange(r, reply) ==
    [seq |-> 1 - last.seq, route |-> r.route, method |-> r.method,
     status |-> reply.status, body |-> reply.body]

\* mutant: the create endpoint writes the Map that [id].ts reads
HandleCreateShared(r) ==
    LET reply == CreateHandler(sessionStore, r, now) IN
        /\ sessionStore' = reply.store
        /\ last' = Exchange(r, reply)
        /\ UNCHANGED <<now, sessions, nextSweep, race>>
        /\ UNCHANGED <<verifyVars, appVars>>

\* request r arrives at pages/api/session.ts and its handler runs
HandleCreate(r) ==
    LET reply == CreateHandler(sessions, r, now) IN
        /\ sessions' = reply.store
        /\ last' = Exchange(r, reply)
        /\ UNCHANGED <<now, sessionStore, nextSweep, race>>
        /\ UNCHANGED <<verifyVars, appVars>>

\* request r arrives at pages/api/session/[id].ts and its handler runs
HandleId(r) ==
    LET reply == IdHandler(sessionStore, r, now) IN
        /\ sessionStore' = reply.store
        /\ last' = Exchange(r, reply)
        /\ UNCHANGED <<now, sessions, nextSweep, race>>
        /\ UNCHANGED <<verifyVars, appVars>>

\* the assertion a responding device posts is its own
AssertionOf(p) == IF p = "p1" THEN "A1" ELSE "A2"

\* responder p sends POST /api/session/<id>; the request is in flight until
\* the handler runs.  sawNull records that the session was live and had no
\* assertion when the request was sent.
Send(p, id) ==
    /\ race[p].status # 0
    /\ race' = [race EXCEPT ![p] =
                  [kind |-> "store", id |-> id, status |-> 0,
                   sawNull |-> /\ id \in DOMAIN sessionStore
                               /\ now <= sessionStore[id].expiresAt
                               /\ sessionStore[id].assertion = Null]]
    /\ UNCHANGED <<now, sessions, sessionStore, nextSweep, last>>
    /\ UNCHANGED <<verifyVars, appVars>>

\* the handler of [id].ts runs on responder p's request
Deliver(p) ==
    /\ race[p].status = 0
    /\ LET r == StoreRequest(race[p].id, AssertionOf(p))
           reply == IdHandler(sessionStore, r, now) IN
         /\ sessionStore' = reply.store
         /\ last' = Exchange(r, reply)
         /\ race' = [race EXCEPT ![p].status = reply.status]
    /\ UNCHANGED <<now, sessions, nextSweep>>
    /\ UNCHANGED <<verifyVars, appVars>>

Next ==
    \/ \E d \in {1, SWEEP_INTERVAL} : Tick(d)
    \/ Sweep
    \/ \E r \in CreateRequests : HandleCreate(r)
    \/ \E r \in IdRequests : HandleId(r)

Spec == Init /\ [][Next]_vars

\* the create endpoint and its timer; no session is ever looked up.  Time
\* passes, and a timer that is due fires.
NextSweep ==
    \/ \E d \in {1, SWEEP_INTERVAL} : Tick(d)
    \/ Sweep
    \/ \E i \in Ids : HandleCreate(Request("create", "POST", BodyObject, i, "c1", Undefined))

SpecSweep ==
    /\ Init
    /\ [][NextSweep]_vars
    /\ WF_vars(\E d \in {1, SWEEP_INTERVAL} : Tick(d))
    /\ WF_vars(Sweep)

\* the [id].ts module on an adopted store
NextStore ==
    \/ \E d \in {1, SWEEP_INTERVAL} : Tick(d)
    \/ \E r \in IdRequests : HandleId(r)

SpecStore == InitStore /\ [][NextStore]_vars

\* one adopted session, polled and answered while the create endpoint is
\* called again with its id
InitReuse == InitStore /\ Cardinality(DOMAIN sessionStore) = 1

NextReuse ==
    \/ \E d \in {1, SWEEP_INTERVAL} : Tick(d)
    \/ \E i \in DOMAIN sessionStore, ch \in Challenges :
          HandleCreate(Request("create", "POST", BodyObject, i, ch, Undefined))
    \/ \E r \in PollRequests \cup StoreRequests : HandleId(r)

SpecReuse == InitReuse /\ [][NextReuse]_vars

\* one adopted session; the create endpoint is called with valid and invalid
\* bodies for one id, the store endpoint with valid and invalid bodies
NextValidate ==
    \/ \E d \in {1, SWEEP_INTERVAL} : Tick(d)
    \/ \E r \in {c \in CreateRequests : c.id \in {"s1", Undefined, NonString}} :
          HandleCreate(r)
    \/ \E r \in StoreRequests : HandleId(r)

SpecValidate == InitReuse /\ [][NextValidate]_vars

\* two responders race to store their assertions while the initiator polls
NextRace ==
    \/ \E d \in {1, SWEEP_INTERVAL} : Tick(d)
    \/ \E p \in Responders, id \in Ids : Send(p, id)
    \/ \E p \in Responders : Deliver(p)
    \/ \E i \in Ids : HandleId(Request("id", "GET", BodyNull, i, Undefined, Undefined))

SpecRace == InitStore /\ [][NextRace]_vars

\* every call of verifyAssertion within the bounds
VerifyCalls ==
    UNION {{[kind |-> "verify",
             assertion |-> [clientDataJSON |-> cd, authenticatorData |-> ad,
                            signature |-> sig],
             publicKeyBytes |-> pk, expectedChallenge |-> ch] :
               sig \in SignatureFields(ad, cd),
               pk \in PublicKeyFields, ch \in ChallengeBytes} :
           cd \in ClientDataFields, ad \in AuthDataFields}

\* verifyAssertion is about to be called with some assertion, stored public
\* key and expected challenge
InitVerify ==
    /\ now = 0
    /\ sessions = EmptyMap
    /\ sessionStore = EmptyMap
    /\ nextSweep = SWEEP_INTERVAL
    /\ last = NoExchange
    /\ race = [p \in Responders |-> NoRace]
    /\ call \in VerifyCalls
    /\ result = NoResult
    /\ AppIdle

\* the call runs to its end
ReturnVerify ==
    /\ call # NoCall
    /\ result = NoResult
    /\ result' = verifyAssertion(call.assertion, call.publicKeyBytes,
                                 call.expectedChallenge)
    /\ UNCHANGED <<call, relayVars, appVars>>

NextVerify == ReturnVerify

SpecVerify == InitVerify /\ [][NextVerify]_vars

(***************************************************************************)
(* The dashboard and its unlock modal                                      *)
(***************************************************************************)
\* the dashboard is open and locked; IndexedDB holds some master key record
\* and some credential
InitUnlock ==
    /\ now = 0
    /\ sessions = EmptyMap
    /\ sessionStore = EmptyMap
    /\ nextSweep = SWEEP_INTERVAL
    /\ last = NoExchange
    /\ race = [p \in Responders |-> NoRace]
    /\ call = NoCall
    /\ result = NoResult
    /\ masterKeyData \in MasterKeyDatas
    /\ credential \in Credentials
    /\ page = "/"
    /\ masterKey = Null
    /\ modal = NoModal
    /\ qr = NoQR
    /\ polls = <<>>
    /\ redirects = {}
    /\ phone = "none"
    /\ notes = EmptyMap
    /\ random = <<>>
    /\ timeoutRef = NoTimeout
    /\ showEditor = FALSE
    /\ lastActivity = 0
    /\ download = NoBackup

\* the form of the modal is submitted with a passphrase; the modal is shown
\* while Home has no master key (app/page.tsx:141-160), and onUnlock is
\* Home.handleUnlock (app/page.tsx:55-58)
SubmitPassphrase(passphrase) ==
    /\ page = "/"
    /\ masterKey = Null
    /\ LET done == handlePassphraseUnlock(passphrase, masterKeyData) IN
         /\ masterKey' = done.key
         /\ modal' = [error |-> done.error, submitted |-> passphrase]
         \* app/page.tsx:165-169 and SessionTimer.tsx:40-51: with a master key
         \* Home renders the SessionTimer, whose effect starts the timeout
         /\ timeoutRef' = IF done.key # Null THEN resetTimer(timeoutRef, TRUE, now)
                          ELSE timeoutRef
         /\ lastActivity' = IF done.key # Null THEN now ELSE lastActivity
    /\ UNCHANGED <<relayVars, verifyVars, dataVars, masterKeyData, credential, page, qr,
                   polls, redirects, phone, showEditor, download>>

\* the biometric button of the modal
BiometricUnlock ==
    /\ page = "/"
    /\ masterKey = Null
    /\ credential.stored
    /\ modal' = [error |-> handleBiometricUnlock(credential), submitted |-> Undefined]
    /\ UNCHANGED <<relayVars, verifyVars, dataVars, masterKeyData, credential, page,
                   masterKey, qr, polls, redirects, phone, lockVars, download>>

\* app/page.tsx:60-68  handleLock, from the lock button or the SessionTimer;
\* the modal mounts anew
Lock ==
    /\ page = "/"
    /\ masterKey # Null
    /\ masterKey' = Null
    /\ modal' = NoModal
    /\ showEditor' = FALSE
    \* SessionTimer.tsx:54-60  the SessionTimer unmounts with the dashboard
    /\ timeoutRef' = NoTimeout
    /\ UNCHANGED <<relayVars, verifyVars, dataVars, masterKeyData, credential, page, qr,
                   polls, redirects, phone, lastActivity, download>>

NextUnlock ==
    \/ \E passphrase \in Passphrases : SubmitPassphrase(passphrase)
    \/ BiometricUnlock
    \/ Lock

SpecUnlock == InitUnlock /\ [][NextUnlock]_vars

(***************************************************************************)
(* lib/crypto.ts called function by function                               *)
(***************************************************************************)
\* salts and iteration counts of deriveKeyFromPassphrase
Salts == {"intact", "altered"}

IterationCounts == {SetupIterations, 100000}

WrappingKeys ==
    {deriveKeyFromPassphrase(p, sa, SetupIterations) : p \in Passphrases, sa \in Salts}

\* the bytes of an AES-GCM output: the data and the 16-byte tag
ByteLength(buffer) == Len(buffer.data) + 16

\* another base64 text decodes to the same bytes when the last character of
\* the text carries bits that atob discards (crypto.ts:185-196)
HasAlias(str) == ByteLength(str.bytes) % 3 # 0

\* what a caller can pass as ciphertext when encryptText returned str: the
\* text itself, another text for the same bytes, the text of other bytes, a
\* text that is no base64
CiphertextVariants(str) ==
    {str, [str EXCEPT !.bytes = Forged(@)], [str EXCEPT !.b64 = "malformed"]}
    \cup
    (IF HasAlias(str) THEN {[str EXCEPT !.text = "alias"]} ELSE {})

\* the same for the iv: 12 bytes fill 16 characters, no bits are discarded
IvVariants(str) ==
    {str, [str EXCEPT !.bytes = @ + 1], [str EXCEPT !.b64 = "malformed"]}

InitCrypto ==
    /\ now = 0
    /\ sessions = EmptyMap
    /\ sessionStore = EmptyMap
    /\ nextSweep = SWEEP_INTERVAL
    /\ last = NoExchange
    /\ race = [p \in Responders |-> NoRace]
    /\ call = NoCall
    /\ result = NoResult
    /\ AppIdle

\* encryptText(plaintext, key) is called
CallEncryptText(plaintext, key) ==
    /\ Len(random) < MaxDraws
    /\ LET iv == generateRandomBytes(random) IN
         /\ random' = Append(random, Draw("encryptText", key, iv))
         /\ result' = encryptText(plaintext, key, iv)
    /\ call' = [kind |-> "encryptText", plaintext |-> plaintext, key |-> key]
    /\ UNCHANGED <<relayVars, masterKeyData, credential, page, masterKey, modal,
                   qr, polls, redirects, phone, notes, lockVars, download>>

\* decryptText is called on what the last encryptText call returned, or on
\* a variant of it
CallDecryptText(ciphertext, iv, key) ==
    /\ call.kind = "encryptText"
    /\ ciphertext \in CiphertextVariants(result.value.ciphertext)
    /\ iv \in IvVariants(result.value.iv)
    /\ call' = [kind |-> "decryptText", ciphertext |-> ciphertext, iv |-> iv,
                key |-> key]
    /\ result' = decryptText(ciphertext, iv, key)
    /\ UNCHANGED <<relayVars, masterKeyData, credential, page, masterKey, modal,
                   qr, polls, redirects, phone, notes, random, lockVars, download>>

\* wrapKey(key, wrappingKey) is called
CallWrapKey(key, wrappingKey) ==
    /\ Len(random) < MaxDraws
    /\ LET iv == generateRandomBytes(random) IN
         /\ random' = Append(random, Draw("wrapKey", wrappingKey, iv))
         /\ result' = wrapKey(key, wrappingKey, iv)
    /\ call' = [kind |-> "wrapKey", key |-> key, wrappingKey |-> wrappingKey]
    /\ UNCHANGED <<relayVars, masterKeyData, credential, page, masterKey, modal,
                   qr, polls, redirects, phone, notes, lockVars, download>>

\* unwrapKey is called on what the last wrapKey call returned
CallUnwrapKey(wrappingKey) ==
    /\ call.kind = "wrapKey"
    /\ call' = [kind |-> "unwrapKey", wrappedKey |-> result.value.wrappedKey,
                wrappingKey |-> wrappingKey, iv |-> result.value.iv]
    /\ result' = LET key == unwrapKey(result.value.wrappedKey, wrappingKey,
                                      result.value.iv)
                 IN  IF key = "throw" THEN Throws("OperationError") ELSE Returns(key)
    /\ UNCHANGED <<relayVars, masterKeyData, credential, page, masterKey, modal,
                   qr, polls, redirects, phone, notes, random, lockVars, download>>

\* deriveKeyFromPassphrase(passphrase, salt, iterations) is called
CallDeriveKey(passphrase, salt, iterations) ==
    /\ call' = [kind |-> "deriveKeyFromPassphrase", passphrase |-> passphrase,
                salt |-> salt, iterations |-> iterations]
    /\ result' = Returns(deriveKeyFromPassphrase(passphrase, salt, iterations))
    /\ UNCHANGED <<relayVars, masterKeyData, credential, page, masterKey, modal,
                   qr, polls, redirects, phone, notes, random, lockVars, download>>

NextCrypto ==
    \/ \E plaintext \in Strings, key \in MasterKeys : CallEncryptText(plaintext, key)
    \/ /\ call.kind = "encryptText"
       /\ \E ciphertext \in CiphertextVariants(result.value.ciphertext),
             iv \in IvVariants(result.value.iv), key \in MasterKeys :
               CallDecryptText(ciphertext, iv, key)
    \/ \E key \in MasterKeys, wrappingKey \in WrappingKeys : CallWrapKey(key, wrappingKey)
    \/ \E wrappingKey \in WrappingKeys : CallUnwrapKey(wrappingKey)
    \/ \E p \in Passphrases, sa \in Salts, n \in IterationCounts : CallDeriveKey(p, sa, n)

SpecCrypto == InitCrypto /\ [][NextCrypto]_vars

(***************************************************************************)
(* base64url, character by character   (lib/crypto.ts:177-196)             *)
(*                                                                         *)
(* A character of a base64 text is written as a number: 0..61 for the      *)
(* letters and digits in the order of the base64 alphabet, and the numbers *)
(* of Char for the five other characters.                                  *)
(***************************************************************************)
Char == [plus |-> 62, slash |-> 63, equals |-> 64, minus |-> 65, underscore |-> 66]

\* crypto.ts:178  String.fromCharCode(...bytes) passes every byte as an
\* argument of one call.  An engine throws a RangeError when a call has more
\* arguments than its stack takes, some tens or hundreds of thousands;
\* scaled down to the arrays of the model
MaxArguments == 3

\* the values of the bytes: their leading six bits are 0, 62 and 63
ByteValues == {0, 251, 255}

RECURSIVE ByteArrays(_)
\* the byte arrays of at most n bytes
ByteArrays(n) ==
    IF n = 0 THEN {<<>>}
    ELSE ByteArrays(n - 1) \cup
         {Append(b, v) : b \in {a \in ByteArrays(n - 1) : Len(a) = n - 1}, v \in ByteValues}

RECURSIVE btoa(_)
\* btoa: three bytes give four characters, and the last one or two bytes
\* give two or three characters and padding
btoa(binary) ==
    IF Len(binary) = 0 THEN <<>>
    ELSE IF Len(binary) = 1
    THEN <<binary[1] \div 4, (binary[1] % 4) * 16, Char.equals, Char.equals>>
    ELSE IF Len(binary) = 2
    THEN <<binary[1] \div 4, (binary[1] % 4) * 16 + binary[2] \div 16,
           (binary[2] % 16) * 4, Char.equals>>
    ELSE <<binary[1] \div 4, (binary[1] % 4) * 16 + binary[2] \div 16,
           (binary[2] % 16) * 4 + binary[3] \div 64, binary[3] % 64>>
         \o btoa(SubSeq(binary, 4, Len(binary)))

RECURSIVE Replace(_, _, _)
\* String.prototype.replace with a global pattern of one character; with
\* <<>> for the replacement the character is removed
Replace(str, from, to) ==
    IF str = <<>> THEN <<>>
    ELSE (IF str[1] = from THEN to ELSE <<str[1]>>) \o Replace(Tail(str), from, to)

\* crypto.ts:177-180  base64urlEncode on an array of bytes, as a text
base64urlEncodeText(bytes) ==
    IF Len(bytes) > MaxArguments THEN Throws("RangeError")
    ELSE Returns(Replace(Replace(Replace(btoa(bytes), Char.plus, <<Char.minus>>),
                                 Char.slash, <<Char.underscore>>),
                         Char.equals, <<>>))

\* crypto.ts:187  '='.repeat((4 - (str.length % 4)) % 4)
Padding(str) == [i \in 1..((4 - (Len(str) % 4)) % 4) |-> Char.equals]

RECURSIVE atob(_)
\* atob on a text of the base64 alphabet whose length is a multiple of 4 and
\* whose padding is at its end: the bits left over in the last character
\* are dropped
atob(base64) ==
    IF Len(base64) = 0 THEN <<>>
    ELSE IF base64[3] = Char.equals
    THEN <<base64[1] * 4 + base64[2] \div 16>>
    ELSE IF base64[4] = Char.equals
    THEN <<base64[1] * 4 + base64[2] \div 16,
           (base64[2] % 16) * 16 + base64[3] \div 4>>
    ELSE <<base64[1] * 4 + base64[2] \div 16,
           (base64[2] % 16) * 16 + base64[3] \div 4,
           (base64[3] % 4) * 64 + base64[4]>>
         \o atob(SubSeq(base64, 5, Len(base64)))

\* atob accepts the text: its length is a multiple of 4, its characters are
\* of the base64 alphabet, and padding stands only at its end
ValidBase64(base64) ==
    /\ Len(base64) % 4 = 0
    /\ \A i \in DOMAIN base64 :
         /\ base64[i] \in 0..Char.equals
         /\ base64[i] = Char.equals =>
              /\ i >= Len(base64) - 1
              /\ base64[Len(base64)] = Char.equals

\* crypto.ts:185-196  base64urlDecode on a text
base64urlDecodeText(str) ==
    LET base64 == Replace(Replace(str, Char.minus, <<Char.plus>>),
                          Char.underscore, <<Char.slash>>)
                    \o Padding(str)
    IN  IF ~ValidBase64(base64) THEN Throws("InvalidCharacterError")
        ELSE Returns(atob(base64))

InitBase64 ==
    /\ now = 0
    /\ sessions = EmptyMap
    /\ sessionStore = EmptyMap
    /\ nextSweep = SWEEP_INTERVAL
    /\ last = NoExchange
    /\ race = [p \in Responders |-> NoRace]
    /\ call = NoCall
    /\ result = NoResult
    /\ AppIdle

\* base64urlEncode(bytes) is called
CallBase64urlEncode(bytes) ==
    /\ call' = [kind |-> "base64urlEncode", bytes |-> bytes]
    /\ result' = base64urlEncodeText(bytes)
    /\ UNCHANGED <<relayVars, appVars>>

\* base64urlDecode is called on what the last base64urlEncode call returned
CallBase64urlDecode ==
    /\ call.kind = "base64urlEncode"
    /\ result.out = "returned"
    /\ call' = [kind |-> "base64urlDecode", str |-> result.value, bytes |-> call.bytes]
    /\ result' = base64urlDecodeText(result.value)
    /\ UNCHANGED <<relayVars, appVars>>

NextBase64 ==
    \/ \E bytes \in ByteArrays(MaxBytes) : CallBase64urlEncode(bytes)
    \/ CallBase64urlDecode

SpecBase64 == InitBase64 /\ [][NextBase64]_vars

(***************************************************************************)
(* Setup, import of a backup file, and the calls of lib/indexeddb.ts       *)
(***************************************************************************)
InitBackup ==
    /\ now = 0
    /\ sessions = EmptyMap
    /\ sessionStore = EmptyMap
    /\ nextSweep = SWEEP_INTERVAL
    /\ last = NoExchange
    /\ race = [p \in Responders |-> NoRace]
    /\ call = NoCall
    /\ result = NoResult
    /\ AppIdle

\* app/page.tsx:27-45  the app is opened: Home's checkSetup sends a browser
\* without a master key record to /setup
OpenHome ==
    /\ page = "none"
    /\ page' = IF masterKeyData.stored THEN "/" ELSE "/setup"
    /\ call' = [kind |-> "checkSetup"]
    /\ result' = NoResult
    /\ UNCHANGED <<relayVars, masterKeyData, credential, masterKey, modal, qr, polls,
                   redirects, phone, dataVars, lockVars, download>>

\* the form of /setup is submitted
Setup(passphrase, confirmPassphrase, enableBiometric, registered) ==
    /\ page = "/setup"
    /\ masterKeyData # SecondRecord
    /\ Len(random) + 2 <= 2 * MaxDraws
    /\ LET done == handleSetup(passphrase, confirmPassphrase, enableBiometric,
                               registered, masterKeyData, credential)
           salt == generateRandomBytes(random)
           drawn == Append(random, Draw("salt", "none", salt))
       IN  /\ masterKeyData' = done.masterKeyData
           /\ credential' = done.credential
           /\ page' = done.page
           /\ result' = Returns(done.error)
           \* 343, 353: the salt, and the iv of wrapKey
           /\ random' = IF done.error \in {"", "Setup failed. Please try again."}
                        THEN Append(drawn,
                                    Draw("wrapKey",
                                         deriveKeyFromPassphrase(passphrase,
                                                                 done.masterKeyData.salt,
                                                                 SetupIterations),
                                         generateRandomBytes(drawn)))
                        ELSE random
    /\ call' = [kind |-> "handleSetup", passphrase |-> passphrase,
                confirmPassphrase |-> confirmPassphrase]
    /\ UNCHANGED <<relayVars, masterKey, modal, qr, polls, redirects, phone, notes,
                   lockVars, download>>

\* a file is chosen in the dialog Home's Import button opens
HandleImport(file) ==
    /\ page = "/"
    /\ LET done == handleImport(file, masterKeyData, notes) IN
         /\ masterKeyData' = done.masterKeyData
         /\ notes' = done.notes
         /\ result' = done
    /\ call' = [kind |-> "handleImport", data |-> file]
    /\ UNCHANGED <<relayVars, credential, page, masterKey, modal, qr, polls, redirects,
                   phone, random, lockVars, download>>

\* validateBackup(data) is called
CallValidateBackup(data) ==
    /\ call' = [kind |-> "validateBackup", data |-> data]
    /\ result' = validateBackup(data, masterKeyData)
    /\ UNCHANGED <<relayVars, appVars>>

\* importBackup(data, mergeNotes) is called
CallImportBackup(data, mergeNotes) ==
    /\ LET done == importBackup(data, mergeNotes, masterKeyData, notes) IN
         /\ masterKeyData' = done.masterKeyData
         /\ notes' = done.notes
         /\ result' = done
    /\ call' = [kind |-> "importBackup", data |-> data, mergeNotes |-> mergeNotes]
    /\ UNCHANGED <<relayVars, credential, page, masterKey, modal, qr, polls, redirects,
                   phone, random, lockVars, download>>

\* saveMasterKeyData(k) is called
CallSaveMasterKeyData(k) ==
    /\ LET done == saveMasterKeyData(k, masterKeyData) IN
         /\ masterKeyData' = IF done.out = "threw" THEN masterKeyData ELSE done.value
         /\ result' = done
    /\ call' = [kind |-> "saveMasterKeyData", data |-> k]
    /\ UNCHANGED <<relayVars, credential, page, masterKey, modal, qr, polls, redirects,
                   phone, dataVars, lockVars, download>>

\* what JSON.parse returned for a file
ParsedFiles == {f \in BackupFiles : f.json = "value"}

NextBackup ==
    \/ OpenHome
    \/ \E passphrase \in Passphrases, confirmPassphrase \in Passphrases,
          enableBiometric \in BOOLEAN, registered \in BOOLEAN :
            Setup(passphrase, confirmPassphrase, enableBiometric, registered)
    \/ \E file \in BackupFiles : HandleImport(file)
    \/ \E data \in ParsedFiles : CallValidateBackup(data)
    \/ \E data \in ParsedFiles, mergeNotes \in BOOLEAN : CallImportBackup(data, mergeNotes)
    \/ \E k \in {b \in BackupKeys : b.kind = "object"} : CallSaveMasterKeyData(k)

SpecBackup == InitBackup /\ [][NextBackup]_vars

(***************************************************************************)
(* Export of a backup and its import in replace mode                       *)
(***************************************************************************)
\* exportBackup() is called
CallExportBackup ==
    /\ download' = exportBackup(masterKeyData, notes)
    /\ call' = [kind |-> "exportBackup"]
    /\ result' = Returns("backup")
    /\ UNCHANGED <<relayVars, masterKeyData, credential, page, masterKey, modal, qr,
                   polls, redirects, phone, dataVars, lockVars>>

\* the version 1 backups of other states of this installation, and one of
\* another installation
OtherBackups ==
    {f \in ParsedFiles : /\ BackupDataSchema(f) /\ f.version = 1
                         /\ f.masterKeyData.kind = "object"
                         /\ f.masterKeyData.iterations = SetupIterations}

NextRestore ==
    \/ OpenHome
    \/ \E passphrase \in Passphrases, confirmPassphrase \in Passphrases,
          enableBiometric \in BOOLEAN, registered \in BOOLEAN :
            Setup(passphrase, confirmPassphrase, enableBiometric, registered)
    \/ CallExportBackup
    \/ \E data \in OtherBackups \cup {f \in {download} : f.json = "value"},
          mergeNotes \in BOOLEAN : CallImportBackup(data, mergeNotes)

SpecRestore == InitBackup /\ [][NextRestore]_vars

(***************************************************************************)
(* The unlocked dashboard: the note editor and the import of backups       *)
(***************************************************************************)
\* app/page.tsx:343, 353  what setup drew
SetupDraws ==
    <<Draw("salt", "none", SetupSalt), Draw("wrapKey", SetupWrappingKey, SetupIv)>>

\* setup is done and the dashboard is unlocked; Date.now() is positive
InitNotes ==
    /\ now = 1
    /\ sessions = EmptyMap
    /\ sessionStore = EmptyMap
    /\ nextSweep = SWEEP_INTERVAL
    /\ last = NoExchange
    /\ race = [p \in Responders |-> NoRace]
    /\ call = NoCall
    /\ result = NoResult
    /\ masterKeyData = SetupRecord
    /\ credential = [stored |-> FALSE]
    /\ page = "/"
    /\ masterKey = "master-key"
    /\ modal = NoModal
    /\ qr = NoQR
    /\ polls = <<>>
    /\ redirects = {}
    /\ phone = "none"
    /\ notes = EmptyMap
    /\ random = SetupDraws
    /\ timeoutRef = Timeout(now + LOCK_TIMEOUT)
    /\ showEditor = FALSE
    /\ lastActivity = now
    /\ download = NoBackup

\* a millisecond passes
Elapse ==
    /\ now < MaxClock
    /\ now' = now + 1
    /\ UNCHANGED <<sessions, sessionStore, nextSweep, last, race, verifyVars, appVars>>

\* part_003:38-68  Save is pressed in the editor opened on note (app/page.tsx:
\* 70-78), with content in the text area; uuid is what uuidv4() would return
Save(note, content, uuid) ==
    /\ page = "/"
    /\ masterKey # Null
    /\ Len(random) < Len(SetupDraws) + MaxSaves
    /\ LET iv == generateRandomBytes(random)
           savedNote == handleSave(note, content, masterKey, now, iv, uuid)
       IN  /\ random' = Append(random, Draw("encryptText", masterKey, iv))
           /\ notes' = saveNote(notes, savedNote)
           /\ result' = Returns(savedNote.id)
    /\ call' = [kind |-> "handleSave", note |-> note, content |-> content]
    /\ UNCHANGED <<relayVars, masterKeyData, credential, page, masterKey, modal, qr,
                   polls, redirects, phone, lockVars, download>>

\* app/page.tsx:70-73  New Note, then Save
SaveNew(content) ==
    \E uuid \in NoteIds \ DOMAIN notes : Save(NoNote, content, uuid)

\* app/page.tsx:75-78  a note of the list is selected, then Save
SaveEdit(id, content) ==
    /\ id \in DOMAIN notes
    /\ \E uuid \in NoteIds : Save(notes[id], content, uuid)

\* the backup files of this installation
OwnBackups ==
    {f \in BackupFiles : /\ f.json = "value" /\ f.typed /\ f.version = 1
                         /\ f.masterKeyData.kind = "null"
                         /\ \A n \in f.notes : n.typed}

NextNotes ==
    \/ Elapse
    \/ \E content \in NoteTexts : SaveNew(content)
    \/ \E id \in NoteIds, content \in NoteTexts : SaveEdit(id, content)
    \/ \E file \in OwnBackups : HandleImport(file)

SpecNotes == InitNotes /\ [][NextNotes]_vars

(***************************************************************************)
(* The session timer   (components/SessionTimer.tsx; app/page.tsx:60-68,   *)
(* 165-169)                                                                *)
(***************************************************************************)
Minute == 60000

\* the dashboard is open and locked after setup
InitLock ==
    /\ InitUnlock
    /\ masterKeyData = SetupRecord
    /\ ~credential.stored

\* the timeout of the SessionTimer is due
LockDue == timeoutRef.set /\ now >= timeoutRef.due

\* time passes: a millisecond, a minute, or what is left until the timeout
\* is due.  A timeout that is due fires before time goes on.
Pass(d) ==
    /\ d = 1 => now % Minute = 0
    /\ now + d <= MaxMinutes * Minute
    /\ timeoutRef.set => now + d <= timeoutRef.due
    /\ now' = now + d
    /\ UNCHANGED <<sessions, sessionStore, nextSweep, last, race, verifyVars, appVars>>

\* SessionTimer.tsx:44-48  a mousedown, keydown, scroll or touchstart event
\* reaches the window while the SessionTimer is mounted: resetTimer runs
Activity ==
    /\ page = "/"
    /\ masterKey # Null
    /\ ~LockDue
    /\ timeoutRef' = resetTimer(timeoutRef, masterKey # Null, now)
    /\ lastActivity' = now
    /\ UNCHANGED <<relayVars, verifyVars, dataVars, masterKeyData, credential, page,
                   masterKey, modal, qr, polls, redirects, phone, showEditor, download>>

\* app/page.tsx:70-73  the New Note button is pressed: its mousedown runs
\* resetTimer, its click handleNewNote
NewNote ==
    /\ page = "/"
    /\ masterKey # Null
    /\ ~LockDue
    /\ timeoutRef' = resetTimer(timeoutRef, masterKey # Null, now)
    /\ lastActivity' = now
    /\ showEditor' = TRUE
    /\ UNCHANGED <<relayVars, verifyVars, dataVars, masterKeyData, credential, page,
                   masterKey, modal, qr, polls, redirects, phone, download>>

\* SessionTimer.tsx:34-37  the timeout fires: onTimeout is Home.handleLock
\* (app/page.tsx:60-68), and the SessionTimer unmounts with the dashboard
TimeoutFires ==
    /\ LockDue
    /\ masterKey' = Null
    /\ showEditor' = FALSE
    /\ modal' = NoModal
    /\ timeoutRef' = NoTimeout
    /\ UNCHANGED <<relayVars, verifyVars, dataVars, masterKeyData, credential, page, qr,
                   polls, redirects, phone, lastActivity, download>>

NextLock ==
    \/ \E d \in {1, Minute} \cup
                (IF timeoutRef.set /\ timeoutRef.due > now
                 THEN {timeoutRef.due - now} ELSE {}) : Pass(d)
    \/ \E passphrase \in Passphrases : SubmitPassphrase(passphrase)
    \/ Activity
    \/ NewNote
    \/ Lock
    \/ TimeoutFires

\* a timeout that is due fires
SpecLock == InitLock /\ [][NextLock]_vars /\ WF_vars(TimeoutFires)

(***************************************************************************)
(* Setup, unlock, the editor and import on one installation                *)
(***************************************************************************)
\* the browser has no data and Date.now() is positive
InitLineage ==
    /\ now = 1
    /\ sessions = EmptyMap
    /\ sessionStore = EmptyMap
    /\ nextSweep = SWEEP_INTERVAL
    /\ last = NoExchange
    /\ race = [p \in Responders |-> NoRace]
    /\ call = NoCall
    /\ result = NoResult
    /\ AppIdle

\* the browser opens /setup: by its address, or sent there by Home's
\* checkSetup when isSetup or getStats throws (app/page.tsx:43-47).  Setup
\* (app/page.tsx:318-391) does not look for a stored record.  Home unmounts.
OpenSetup ==
    /\ page \in {"none", "/"}
    /\ page' = "/setup"
    /\ masterKey' = Null
    /\ modal' = NoModal
    /\ showEditor' = FALSE
    /\ timeoutRef' = NoTimeout
    /\ call' = [kind |-> "openSetup"]
    /\ result' = NoResult
    /\ UNCHANGED <<relayVars, masterKeyData, credential, qr, polls, redirects, phone,
                   dataVars, lastActivity, download>>

\* the backups of this installation and of another one
LineageFiles ==
    {f \in ParsedFiles : /\ BackupDataSchema(f) /\ f.version = 1
                         /\ f.masterKeyData.iterations = SetupIterations}

NextLineage ==
    \/ OpenHome
    \/ OpenSetup
    \/ \E passphrase \in Passphrases, confirmPassphrase \in Passphrases,
          enableBiometric \in BOOLEAN, registered \in BOOLEAN :
            Setup(passphrase, confirmPassphrase, enableBiometric, registered)
    \/ \E passphrase \in Passphrases : SubmitPassphrase(passphrase)
    \/ Lock
    \/ \E content \in NoteTexts : SaveNew(content)
    \/ \E id \in NoteIds, content \in NoteTexts : SaveEdit(id, content)
    \/ \E file \in LineageFiles : HandleImport(file)

SpecLineage == InitLineage /\ [][NextLineage]_vars

(***************************************************************************)
(* The QR unlock page                                                      *)
(***************************************************************************)
\* the PC has opened /auth/qr at time 0
InitQR ==
    /\ now = 0
    /\ sessions = EmptyMap
    /\ sessionStore = EmptyMap
    /\ nextSweep = SWEEP_INTERVAL
    /\ last = NoExchange
    /\ race = [p \in Responders |-> NoRace]
    /\ call = NoCall
    /\ result = NoResult
    /\ masterKeyData \in {d \in MasterKeyDatas :
                             /\ d.wrappedKey = "intact"
                             /\ d.salt = "intact"
                             /\ d.iv = "intact"
                             /\ d.iterations = SetupIterations}
    /\ credential \in Credentials
    /\ page = "/auth/qr"
    /\ masterKey = Null
    /\ modal = NoModal
    /\ qr = MountedQR(0)
    /\ polls = <<>>
    /\ redirects = {}
    /\ phone = "none"
    /\ notes = EmptyMap
    /\ random = <<>>
    /\ timeoutRef = NoTimeout
    /\ showEditor = FALSE
    /\ lastActivity = 0
    /\ download = NoBackup

\* a timer whose time has come
TimerDue ==
    \/ qr.pollTimer /\ now >= qr.pollAt
    \/ qr.countdownTimer /\ now >= qr.countdownAt
    \/ \E due \in redirects : now >= due

\* a second passes; a timer that is due fires first
Second ==
    /\ ~TimerDue
    /\ qr.countdownTimer \/ redirects # {}
    /\ now' = now + COUNTDOWN_INTERVAL
    /\ UNCHANGED <<sessions, sessionStore, nextSweep, last, race, verifyVars, appVars>>

\* app/page.tsx:545-560  the fetch of createSession settles
CreateSettles(ok) ==
    /\ qr.create = "sent"
    /\ qr' = SetStatus([qr EXCEPT !.create = IF ok THEN "ok" ELSE "failed"],
                       IF ok THEN "none" ELSE "error")
    /\ UNCHANGED <<relayVars, verifyVars, dataVars, masterKeyData, credential, page,
                   masterKey, modal, polls, redirects, phone, lockVars, download>>

\* the poll interval fires and pollSession starts: its fetch is under way,
\* or fails at once
PollTick(sent) ==
    /\ qr.pollTimer
    /\ now >= qr.pollAt
    /\ sent => Len(polls) < MaxInFlight
    /\ qr' = [qr EXCEPT !.pollAt = @ + POLL_INTERVAL]
    /\ polls' = IF sent THEN Append(polls, Fetching) ELSE polls
    /\ UNCHANGED <<relayVars, verifyVars, dataVars, masterKeyData, credential, page,
                   masterKey, modal, redirects, phone, lockVars, download>>

\* app/page.tsx:564  the fetch of the i-th unfinished pollSession call settles
PollSettles(i, response) ==
    /\ i \in DOMAIN polls
    /\ polls[i] = Fetching
    /\ polls' = [polls EXCEPT ![i] = response]
    /\ UNCHANGED <<relayVars, verifyVars, dataVars, masterKeyData, credential, page,
                   masterKey, modal, qr, redirects, phone, lockVars, download>>

\* app/page.tsx:566-599  the call goes on with the response and runs to its
\* end
PollContinues(i) ==
    /\ i \in DOMAIN polls
    /\ polls[i] # Fetching
    /\ LET done == pollSession(polls[i], credential) IN
         /\ qr' = SetStatus(qr, done.status)
         /\ redirects' = IF done.redirect
                         THEN redirects \cup {now + REDIRECT_DELAY}
                         ELSE redirects
    /\ polls' = [j \in 1..(Len(polls) - 1) |-> IF j < i THEN polls[j] ELSE polls[j + 1]]
    /\ UNCHANGED <<relayVars, verifyVars, dataVars, masterKeyData, credential, page,
                   masterKey, modal, phone, lockVars, download>>

\* app/page.tsx:527-537  the countdown interval fires
CountdownTick ==
    /\ qr.countdownTimer
    /\ now >= qr.countdownAt
    /\ qr' = IF CountdownOver(qr.countdown)
             THEN [qr EXCEPT !.status = "timeout", !.countdown = 0,
                             !.pollTimer = FALSE, !.countdownTimer = FALSE]
             ELSE [qr EXCEPT !.countdown = @ - 1,
                             !.countdownAt = @ + COUNTDOWN_INTERVAL]
    /\ UNCHANGED <<relayVars, verifyVars, dataVars, masterKeyData, credential, page,
                   masterKey, modal, polls, redirects, phone, lockVars, download>>

\* app/page.tsx:634-639, 664-669, 682-687  Cancel / Back to Home:
\* router.push('/') unmounts the page and the locked dashboard mounts
Cancel ==
    /\ qr.mounted
    /\ qr.status # "success"
    /\ qr' = Unmounted(qr, "cancel")
    /\ page' = "/"
    /\ masterKey' = Null
    /\ modal' = NoModal
    /\ UNCHANGED <<relayVars, verifyVars, dataVars, masterKeyData, credential, polls,
                   redirects, phone, lockVars, download>>

\* app/page.tsx:589-591  a redirect timeout fires: router.push('/').  On the
\* dashboard the push changes nothing.
RedirectFires(due) ==
    /\ due \in redirects
    /\ now >= due
    /\ redirects' = redirects \ {due}
    /\ page' = "/"
    /\ IF qr.mounted
       THEN /\ qr' = Unmounted(qr, "redirect")
            /\ masterKey' = Null
            /\ modal' = NoModal
       ELSE UNCHANGED <<qr, masterKey, modal>>
    /\ UNCHANGED <<relayVars, verifyVars, dataVars, masterKeyData, credential, polls, phone,
                   lockVars, download>>

NextQR ==
    \/ Second
    \/ \E ok \in BOOLEAN : CreateSettles(ok)
    \/ \E sent \in BOOLEAN : PollTick(sent)
    \/ \E i \in 1..MaxInFlight, response \in PollResponses : PollSettles(i, response)
    \/ \E i \in 1..MaxInFlight : PollContinues(i)
    \/ CountdownTick
    \/ Cancel
    \/ \E due \in redirects : RedirectFires(due)
    \/ \E passphrase \in Passphrases : SubmitPassphrase(passphrase)
    \/ BiometricUnlock
    \/ Lock

SpecQR == InitQR /\ [][NextQR]_vars

(***************************************************************************)
(* QR unlock end to end: the PC's page, the relay and the phone            *)
(***************************************************************************)
\* app/page.tsx:508-509  the session id and the challenge string the page
\* generated; the QR code carries both (app/page.tsx:518-519)
QRSession == "s1"

QRChallenge == "c1"

\* scan/page.tsx:43-51  JSON.stringify of the assertion the phone's
\* authenticator made for the challenge of the QR code
PhoneAssertion == "A1"

\* app/page.tsx:570-580  data.assertion as the page reads it
WireOf(a) ==
    IF a = Null THEN [json |-> "null"]
    ELSE IF a = PhoneAssertion
    THEN [json |-> "object", assertion |-> SerializedAssertion(OwnChallenge, "k1")]
    ELSE [json |-> "syntax-error"]

\* app/page.tsx:564-570  the relay's reply as pollSession sees it
ResponseOf(reply) ==
    IF reply.status # 200
    THEN [fetch |-> "not-ok", assertion |-> [json |-> "null"], challenge |-> OwnChallenge]
    ELSE [fetch |-> "ok", assertion |-> WireOf(reply.body.assertion),
          challenge |-> OwnChallenge]

\* the relay has just been deployed, the credential is registered, the PC
\* has opened /auth/qr at time 0 and the phone has not scanned yet
InitRemote ==
    /\ now = 0
    /\ sessions = EmptyMap
    /\ sessionStore = EmptyMap
    /\ nextSweep = SWEEP_INTERVAL
    /\ last = NoExchange
    /\ race = [p \in Responders |-> NoRace]
    /\ call = NoCall
    /\ result = NoResult
    /\ masterKeyData = [stored |-> FALSE]
    /\ credential = RegisteredCredential
    /\ page = "/auth/qr"
    /\ masterKey = Null
    /\ modal = NoModal
    /\ qr = MountedQR(0)
    /\ polls = <<>>
    /\ redirects = {}
    /\ phone = "none"
    /\ notes = EmptyMap
    /\ random = <<>>
    /\ timeoutRef = NoTimeout
    /\ showEditor = FALSE
    /\ lastActivity = 0
    /\ download = NoBackup

\* app/page.tsx:545-560 and part_001:38-90  createSession's request reaches
\* pages/api/session.ts and the page gets the answer
RemoteCreate ==
    /\ qr.create = "sent"
    /\ LET r == Request("create", "POST", BodyObject, QRSession, QRChallenge, Undefined)
           reply == CreateHandler(sessions, r, now)
       IN  /\ sessions' = reply.store
           /\ last' = Exchange(r, reply)
           /\ qr' = SetStatus([qr EXCEPT !.create = IF reply.status = 200
                                                    THEN "ok" ELSE "failed"],
                              IF reply.status = 200 THEN "none" ELSE "error")
    /\ UNCHANGED <<now, sessionStore, nextSweep, race, verifyVars, dataVars, masterKeyData,
                   credential, page, masterKey, modal, polls, redirects, phone,
                   lockVars, download>>

\* app/page.tsx:616-620, scan/page.tsx:20-22  the phone scans the QR code,
\* which is on display while the status is 'waiting'
PhoneScans ==
    /\ phone = "none"
    /\ qr.mounted
    /\ qr.status = "waiting"
    /\ phone' = "ready"
    /\ UNCHANGED <<relayVars, verifyVars, dataVars, masterKeyData, credential, page,
                   masterKey, modal, qr, polls, redirects, lockVars, download>>

\* scan/page.tsx:37-52  handleBiometricUnlock: the authenticator signs the
\* challenge and the assertion is posted
PhoneAuthenticates ==
    /\ phone = "ready"
    /\ phone' = "posting"
    /\ UNCHANGED <<relayVars, verifyVars, dataVars, masterKeyData, credential, page,
                   masterKey, modal, qr, polls, redirects, lockVars, download>>

\* mutant: only a server error counts as a failure
ResponseOkBelow500(status) == status < 500

\* scan/page.tsx:55  response.ok
ResponseOk(status) == status \in 200..299

\* scan/page.tsx:46-58, 72-76 and part_002:33-105  the POST reaches
\* pages/api/session/[id].ts and the phone gets the answer
PhonePostArrives ==
    /\ phone = "posting"
    /\ LET r == StoreRequest(QRSession, PhoneAssertion)
           reply == IdHandler(sessionStore, r, now)
       IN  /\ sessionStore' = reply.store
           /\ last' = Exchange(r, reply)
           /\ phone' = IF ResponseOk(reply.status) THEN "success" ELSE "error"
    /\ UNCHANGED <<now, sessions, nextSweep, race, verifyVars, dataVars, masterKeyData,
                   credential, page, masterKey, modal, qr, polls, redirects, lockVars,
                   download>>

\* scan/page.tsx:135-143  Try Again
PhoneRetries ==
    /\ phone = "error"
    /\ phone' = "ready"
    /\ UNCHANGED <<relayVars, verifyVars, dataVars, masterKeyData, credential, page,
                   masterKey, modal, qr, polls, redirects, lockVars, download>>

\* app/page.tsx:524, 562-570 and part_002:33-105  the poll interval fires,
\* the GET reaches pages/api/session/[id].ts and pollSession has the answer
RemotePoll ==
    /\ qr.pollTimer
    /\ now >= qr.pollAt
    /\ Len(polls) < MaxInFlight
    /\ LET r == Request("id", "GET", BodyNull, QRSession, Undefined, Undefined)
           reply == IdHandler(sessionStore, r, now)
       IN  /\ sessionStore' = reply.store
           /\ last' = Exchange(r, reply)
           /\ polls' = Append(polls, ResponseOf(reply))
    /\ qr' = [qr EXCEPT !.pollAt = @ + POLL_INTERVAL]
    /\ UNCHANGED <<now, sessions, nextSweep, race, verifyVars, dataVars, masterKeyData,
                   credential, page, masterKey, modal, redirects, phone, lockVars,
                   download>>

\* a second passes; the relay's sweep, once due, runs first
RemoteSecond ==
    /\ now < nextSweep
    /\ Second

NextRemote ==
    \/ RemoteSecond
    \/ Sweep
    \/ RemoteCreate
    \/ PhoneScans
    \/ PhoneAuthenticates
    \/ PhonePostArrives
    \/ PhoneRetries
    \/ RemotePoll
    \/ \E i \in 1..MaxInFlight : PollContinues(i)
    \/ CountdownTick

\* time passes, timers fire, and every request that was sent is answered;
\* the user of the phone is not obliged to do anything
FairRemote ==
    /\ WF_vars(RemoteSecond)
    /\ WF_vars(Sweep)
    /\ WF_vars(RemoteCreate)
    /\ WF_vars(PhonePostArrives)
    /\ WF_vars(RemotePoll)
    /\ WF_vars(\E i \in 1..MaxInFlight : PollContinues(i))
    /\ WF_vars(CountdownTick)

SpecRemote == InitRemote /\ [][NextRemote]_vars /\ FairRemote

(***************************************************************************)
(* The phone's scan page in QR mode and the relay                          *)
(***************************************************************************)
\* the Map [id].ts adopts holds the session of the QR code, or does not
ScanStores ==
    {EmptyMap, MapSet(EmptyMap, QRSession, NewSession(QRChallenge, 0))}

InitScan ==
    /\ now = 0
    /\ sessions = EmptyMap
    /\ sessionStore \in ScanStores
    /\ nextSweep = SWEEP_INTERVAL
    /\ last = NoExchange
    /\ race = [p \in Responders |-> NoRace]
    /\ call = NoCall
    /\ result = NoResult
    /\ masterKeyData = [stored |-> FALSE]
    /\ credential = RegisteredCredential
    /\ page = "none"
    /\ masterKey = Null
    /\ modal = NoModal
    /\ qr = NoQR
    /\ polls = <<>>
    /\ redirects = {}
    /\ phone = "none"
    /\ notes = EmptyMap
    /\ random = <<>>
    /\ timeoutRef = NoTimeout
    /\ showEditor = FALSE
    /\ lastActivity = 0
    /\ download = NoBackup

\* scan/page.tsx:20-22  the phone opens the address of the QR code, which
\* carries session and challenge
PhoneOpens ==
    /\ phone = "none"
    /\ phone' = "ready"
    /\ UNCHANGED <<relayVars, verifyVars, dataVars, masterKeyData, credential, page,
                   masterKey, modal, qr, polls, redirects, lockVars, download>>

\* scan/page.tsx:44-45, 72-76  base64urlDecode or authenticateCredential
\* throws: nothing is posted
PhoneAuthFails ==
    /\ phone = "ready"
    /\ phone' = "error"
    /\ UNCHANGED <<relayVars, verifyVars, dataVars, masterKeyData, credential, page,
                   masterKey, modal, qr, polls, redirects, lockVars, download>>

\* scan/page.tsx:47, 72-76  the fetch is rejected: the request did not reach
\* the relay
PhonePostFails ==
    /\ phone = "posting"
    /\ phone' = "error"
    /\ UNCHANGED <<relayVars, verifyVars, dataVars, masterKeyData, credential, page,
                   masterKey, modal, qr, polls, redirects, lockVars, download>>

NextScan ==
    \/ \E d \in {1, SWEEP_INTERVAL} : Tick(d)
    \/ PhoneOpens
    \/ PhoneAuthenticates
    \/ PhoneAuthFails
    \/ PhonePostArrives
    \/ PhonePostFails
    \/ PhoneRetries
    \/ HandleId(StoreRequest(QRSession, "A2"))
    \/ HandleId(Request("id", "GET", BodyNull, QRSession, Undefined, Undefined))

SpecScan == InitScan /\ [][NextScan]_vars

(***************************************************************************)
(* Requests used by the properties                                         *)
(***************************************************************************)
Poll(id) == Request("id", "GET", BodyNull, id, Undefined, Undefined)

Create(id, ch) == Request("create", "POST", BodyObject, id, ch, Undefined)

\* the session stored under id is absent from m, or past its deadline
Absent(m, id) == id \notin DOMAIN m

PastDeadline(m, id, t) == id \in DOMAIN m /\ t > m[id].expiresAt

(***************************************************************************)
(* C1: storeAssertion on a live session whose assertion is already set is  *)
(* answered 409 Conflict and the stored assertion keeps the value stored   *)
(* first; no later store request overwrites it.                            *)
(***************************************************************************)
C1_ConflictKeepsFirst ==
    [][\A id \in Ids, a \in Assertions :
          /\ id \in DOMAIN sessionStore
          /\ now <= sessionStore[id].expiresAt
          /\ sessionStore[id].assertion \in Assertions
          /\ HandleId(StoreRequest(id, a))
          => /\ last'.status = 409
             /\ id \in DOMAIN sessionStore'
             /\ sessionStore'[id].assertion = sessionStore[id].assertion
             /\ sessionStore' = sessionStore]_vars

\* a second store request has just been refused on a live session that
\* still holds the first assertion
C1_Witness ==
    /\ last.route = "id"
    /\ last.method = "POST"
    /\ last.status = 409
    /\ \E id \in DOMAIN sessionStore :
          /\ now <= sessionStore[id].expiresAt
          /\ sessionStore[id].assertion \in Assertions

(***************************************************************************)
(* C2: after create(id, challenge) has succeeded, a get(id) issued before  *)
(* the TTL has elapsed is answered 200 with that challenge and a null      *)
(* assertion: the poll endpoint sees the session the create endpoint       *)
(* inserted.  (A session is in "sessions" exactly from a successful create *)
(* on; the sweep removes it only after its deadline.)                      *)
(***************************************************************************)
C2_CreatedSessionIsVisible ==
    [][\A id \in Ids :
          /\ id \in DOMAIN sessions
          /\ now <= sessions[id].expiresAt
          /\ HandleId(Poll(id))
          => /\ last'.status = 200
             /\ last'.body =
                  [assertion |-> Null,
                   expiresAt |-> sessions[id].expiresAt,
                   challenge |-> sessions[id].challenge]]_vars

C5_GetNotFoundAndLazyExpiry ==
    [][\A id \in Ids :
          HandleId(Poll(id))
          => /\ last'.status = 404
                <=> (Absent(sessionStore, id) \/ PastDeadline(sessionStore, id, now))
             /\ PastDeadline(sessionStore, id, now)
                => /\ DOMAIN sessionStore' = (DOMAIN sessionStore) \ {id}
                   /\ \A j \in DOMAIN sessionStore' : sessionStore'[j] = sessionStore[j]
             /\ ~(Absent(sessionStore, id) \/ PastDeadline(sessionStore, id, now))
                => /\ last'.status = 200
                   /\ last'.body =
                        [assertion |-> sessionStore[id].assertion,
                         expiresAt |-> sessionStore[id].expiresAt,
                         challenge |-> sessionStore[id].challenge]
                   /\ sessionStore' = sessionStore]_vars

\* a poll has just found an expired entry and evicted it
C5_Witness ==
    /\ last.route = "id"
    /\ last.method = "GET"
    /\ last.status = 404
    /\ last.body = Error("Session expired")
    /\ now > SESSION_TTL
    /\ Cardinality(DOMAIN sessionStore) = 1

(***************************************************************************)
(* C6: storeAssertion on an absent or expired session is answered 404,     *)
(* whatever its body, and records nothing: the session is not in the store *)
(* afterwards and no session holds an assertion it did not hold before.    *)
(***************************************************************************)
C6_LateAssertionIsDropped ==
    [][\A r \in StoreRequests :
          /\ r.id \in Ids
          /\ Absent(sessionStore, r.id) \/ PastDeadline(sessionStore, r.id, now)
          /\ HandleId(r)
          => /\ last'.status = 404
             /\ r.id \notin DOMAIN sessionStore'
             /\ \A j \in DOMAIN sessionStore' :
                   j \in DOMAIN sessionStore /\ sessionStore'[j] = sessionStore[j]]_vars

\* a store request has just been refused because the session had expired
C6_Witness ==
    /\ last.route = "id"
    /\ last.method = "POST"
    /\ last.status = 404
    /\ last.body = Error("Session expired")
    /\ now > SESSION_TTL

(***************************************************************************)
(* C4: two storeAssertion requests that are in flight together on the same *)
(* live session with a null assertion never both succeed; when both are    *)
(* answered while the session is live, one is answered 200 and the other   *)
(* 409, whichever handler runs first, and the stored assertion is the one  *)
(* of the request answered 200.                                            *)
(***************************************************************************)
C4_OneWinnerOneConflict ==
    \A p \in Responders, q \in Responders :
       /\ p # q
       /\ race[p].kind = "store" /\ race[q].kind = "store"
       /\ race[p].id = race[q].id
       /\ race[p].sawNull /\ race[q].sawNull
       /\ race[p].status # 0 /\ race[q].status # 0
       => /\ ~(race[p].status = 200 /\ race[q].status = 200)
          /\ (race[p].status # 404 /\ race[q].status # 404)
             => {race[p].status, race[q].status} = {200, 409}
          /\ (race[p].status = 200 /\ race[p].id \in DOMAIN sessionStore)
             => sessionStore[race[p].id].assertion = AssertionOf(p)

\* both racing requests have been answered, the second responder's first
C4_Witness ==
    /\ race["p1"].kind = "store" /\ race["p2"].kind = "store"
    /\ race["p1"].id = race["p2"].id
    /\ race["p1"].sawNull /\ race["p2"].sawNull
    /\ race["p2"].status = 200
    /\ race["p1"].status = 409
    /\ sessionStore[race["p1"].id].assertion = "A2"

(***************************************************************************)
(* C7: a well-formed create is answered 503 exactly when the number of     *)
(* live (non-expired) sessions is at or above the maximum; sessions past   *)
(* their expiresAt do not count.                                           *)
(***************************************************************************)
C7_CapacityCountsLiveSessions ==
    [][\A id \in Ids, ch \in Challenges :
          HandleCreate(Create(id, ch))
          => (last'.status = 503
              <=> Cardinality({j \in DOMAIN sessions :
                                 now <= sessions[j].expiresAt}) >= MAX_SESSIONS)]_vars

(***************************************************************************)
(* C8: the periodic sweep deletes a session only if the time is strictly   *)
(* past its expiresAt; a session that is still live is left in the store,  *)
(* unchanged, by every sweep.                                              *)
(***************************************************************************)
C8_SweepSparesLiveSessions ==
    [][Sweep
       => \A id \in DOMAIN sessions :
             /\ id \notin DOMAIN sessions' => now > sessions[id].expiresAt
             /\ now <= sessions[id].expiresAt
                => id \in DOMAIN sessions' /\ sessions'[id] = sessions[id]]_vars

\* the sweep has run exactly at the deadline of a session, which is still
\* in the store
C8_Witness ==
    /\ nextSweep > SWEEP_INTERVAL
    /\ \E id \in DOMAIN sessions :
          /\ sessions[id].expiresAt = nextSweep - SWEEP_INTERVAL
          /\ now = sessions[id].expiresAt

(***************************************************************************)
(* C9: a session inserted by create has a null assertion, createdAt equal  *)
(* to the time of the call and expiresAt = createdAt + 120000 ms, and the  *)
(* response reports expiresIn = 120; every session of the create           *)
(* endpoint's store has this shape.                                        *)
(***************************************************************************)
C9_CreatedSessionShape ==
    [][\A id \in Ids, ch \in Challenges :
          HandleCreate(Create(id, ch)) /\ last'.status = 200
          => /\ id \in DOMAIN sessions'
             /\ sessions'[id] =
                  [challenge |-> ch, assertion |-> Null,
                   createdAt |-> now, expiresAt |-> now + 120000]
             /\ last'.body = [success |-> TRUE, expiresIn |-> 120]
             /\ \A j \in DOMAIN sessions' :
                   /\ sessions'[j].assertion = Null
                   /\ sessions'[j].expiresAt = sessions'[j].createdAt + 120000]_vars

\* a create has just succeeded at a time other than 0 and its session is the
\* only one in the store
C9_Witness ==
    /\ last.route = "create"
    /\ last.method = "POST"
    /\ last.status = 200
    /\ now > 0
    /\ \E id \in DOMAIN sessions :
          /\ sessions[id].createdAt = now
          /\ sessions[id].expiresAt = now + 120000
    /\ MapSize(sessions) = 1

(***************************************************************************)
(* C10: verifyAssertion never throws: whatever the assertion, the stored   *)
(* key and the challenge are (absent or malformed clientDataJSON,          *)
(* authenticatorData, signature or key included), the call returns true or *)
(* false, and a call whose body raises an exception returns false.         *)
(***************************************************************************)
C10_VerifyNeverThrows ==
    (call # NoCall /\ result # NoResult)
    => /\ result.out \in {"true", "false"}
       /\ VerifyBody(call.assertion, call.publicKeyBytes,
                     call.expectedChallenge).out = "throw"
          => result.out = "false"

\* a call whose key import failed after all three checks passed has
\* returned false
C10_Witness ==
    /\ call # NoCall
    /\ result.out = "false"
    /\ result.imported
    /\ ~result.verified
    /\ call.publicKeyBytes.kind = "empty"

(***************************************************************************)
(* Calls of verifyAssertion used by the properties                         *)
(***************************************************************************)
\* the call has returned
Returned == call # NoCall /\ result # NoResult

\* the client data of the call is a JSON object whose challenge decodes
ClientDataReadable ==
    /\ Decodes(call.assertion.clientDataJSON)
    /\ Decodes(call.assertion.authenticatorData)
    /\ Decodes(call.assertion.signature)
    /\ call.assertion.clientDataJSON.json = "object"
    /\ Decodes(call.assertion.clientDataJSON.challenge)

ChallengeMatches ==
    call.assertion.clientDataJSON.challenge.bytes = call.expectedChallenge

OriginMatches == call.assertion.clientDataJSON.origin = ExpectedOrigin

TypeMatches == call.assertion.clientDataJSON.type = "webauthn.get"

\* the signature was made with the private key of the stored public key over
\* authenticatorData || SHA-256(clientDataJSON)
ValidlySigned ==
    /\ call.assertion.signature.signer = call.publicKeyBytes.key
    /\ call.assertion.signature.payload =
          SignedData(call.assertion.authenticatorData, call.assertion.clientDataJSON)

(***************************************************************************)
(* C11: verifyAssertion returns false whenever the challenge embedded in   *)
(* the client data differs from expectedChallenge in a byte or in length,  *)
(* whatever the origin, the type, the key and the signature are.           *)
(***************************************************************************)
C11_WrongChallengeRejected ==
    (Returned /\ ClientDataReadable /\ ~ChallengeMatches)
    => result.out = "false"

\* an assertion validly signed with the stored P-256 key, right origin and
\* type, whose challenge is a strict prefix of the expected one, was rejected
C11_Witness ==
    /\ Returned /\ ClientDataReadable
    /\ call.assertion.clientDataJSON.challenge.bytes = <<1>>
    /\ call.expectedChallenge = <<1, 2>>
    /\ OriginMatches /\ TypeMatches /\ ValidlySigned
    /\ Decodes(call.publicKeyBytes) /\ call.publicKeyBytes.kind = "ec-p256"
    /\ result.out = "false"

(***************************************************************************)
(* C12: verifyAssertion returns true for a validly signed assertion whose  *)
(* challenge, origin and type match, for a stored elliptic-curve (P-256)   *)
(* key and for a stored RSA key alike, and false when the signature does   *)
(* not verify.                                                             *)
(***************************************************************************)
C12_ValidSignatureAccepted ==
    (/\ Returned /\ ClientDataReadable
     /\ ChallengeMatches /\ OriginMatches /\ TypeMatches
     /\ Decodes(call.publicKeyBytes)
     /\ call.publicKeyBytes.kind \in {"ec-p256", "rsa"})
    => (result.out = "true" <=> ValidlySigned)

(***************************************************************************)
(* C13: the checks run in the order challenge, origin, type, signature and *)
(* stop at the first failure: the message logged is the one of the first   *)
(* failing check, and when the challenge, origin or type check fails the   *)
(* call returns false without importing the public key and without calling *)
(* signature verification.                                                 *)
(***************************************************************************)
C13_ChecksInOrder ==
    (Returned /\ ClientDataReadable)
    => /\ ~ChallengeMatches => result.log = "Challenge mismatch"
       /\ (ChallengeMatches /\ ~OriginMatches) => result.log = "Origin mismatch"
       /\ (ChallengeMatches /\ OriginMatches /\ ~TypeMatches)
             => result.log = "Invalid type"
       /\ (ChallengeMatches /\ OriginMatches /\ TypeMatches) => result.log = "none"
       /\ ~(ChallengeMatches /\ OriginMatches /\ TypeMatches)
             => /\ result.out = "false"
                /\ ~result.imported
                /\ ~result.verified

\* a validly signed assertion with the right challenge and the wrong origin
\* and type was rejected at the origin check, the key not imported
C13_Witness ==
    /\ Returned /\ ClientDataReadable
    /\ ChallengeMatches /\ ~OriginMatches /\ ~TypeMatches /\ ValidlySigned
    /\ Decodes(call.publicKeyBytes) /\ call.publicKeyBytes.kind = "ec-p256"
    /\ result.log = "Origin mismatch"
    /\ ~result.imported

(***************************************************************************)
(* Passphrase unlock, as the properties see it                             *)
(***************************************************************************)
\* the stored record is the one written at setup
DataIntact ==
    /\ masterKeyData.stored
    /\ masterKeyData.wrappedKey = "intact"
    /\ masterKeyData.salt = "intact"
    /\ masterKeyData.iv = "intact"
    /\ masterKeyData.iterations = SetupIterations

(***************************************************************************)
(* C20: onUnlock is called, and the dashboard unlocked, exactly when       *)
(* unwrapKey succeeds, that is for the setup passphrase on the unaltered   *)
(* record; every failed passphrase unlock leaves the app locked and shows  *)
(* the same message, whether the passphrase was wrong or the stored        *)
(* wrapped key, salt, iv or iteration count was corrupted.                 *)
(***************************************************************************)
C20_UnlockFailureIsGeneric ==
    [][\A passphrase \in Passphrases :
          SubmitPassphrase(passphrase)
          => IF passphrase = SetupPassphrase /\ DataIntact
             THEN masterKey' = "master-key" /\ modal'.error = ""
             ELSE /\ masterKey' = Null
                  /\ modal'.error = "Incorrect passphrase or corrupted data"]_vars

\* the setup passphrase was submitted on a record whose iv is not decodable:
\* the app is locked and the generic message is shown
C20_Witness ==
    /\ modal.submitted = SetupPassphrase
    /\ masterKeyData.stored /\ masterKeyData.iv = "malformed"
    /\ masterKeyData.wrappedKey = "intact" /\ masterKeyData.salt = "intact"
    /\ masterKey = Null
    /\ modal.error = "Incorrect passphrase or corrupted data"

(***************************************************************************)
(* The QR page, as the properties see it                                   *)
(***************************************************************************)
\* the poll interval fires
PollTimerFires == \E sent \in BOOLEAN : PollTick(sent)

\* a pollSession call finishes and calls verifyAssertion on the way
PollVerifies ==
    \E i \in DOMAIN polls :
       PollContinues(i) /\ pollSession(polls[i], credential).verifies

\* the time of the last countdown tick
Deadline == COUNTDOWN_START * COUNTDOWN_INTERVAL

C15_SuccessOnlyAfterVerification ==
    [][(qr'.status = "success" /\ qr.status # "success")
       => /\ credential.stored
          /\ \E i \in DOMAIN polls :
                /\ PollContinues(i)
                /\ polls[i].fetch = "ok"
                /\ polls[i].assertion.json = "object"
                /\ verifyAssertion(polls[i].assertion.assertion,
                                   credential.publicKey,
                                   OwnChallenge.bytes).out = "true"]_vars

\* the page shows 'success' and its redirect is pending
C15_Witness ==
    /\ qr.mounted
    /\ qr.status = "success"
    /\ redirects # {}
    /\ credential.stored /\ credential.publicKey.kind = "ec-p256"

C17_PollingIsBounded ==
    [][/\ CountdownTick
          => IF now = Deadline
             THEN /\ qr'.status = "timeout"
                  /\ ~qr'.pollTimer
                  /\ ~qr'.countdownTimer
             ELSE /\ now < Deadline
                  /\ qr'.status = qr.status
                  /\ qr'.countdownTimer
                  /\ qr'.pollTimer = qr.pollTimer
       /\ PollTimerFires => (now <= Deadline /\ qr.countdown > 0)]_vars

\* 120 s have passed, polls were issued all along, the page shows 'timeout'
\* and both timers are cleared
C17_Witness ==
    /\ qr.mounted
    /\ now = Deadline
    /\ qr.status = "timeout"
    /\ qr.pollAt > Deadline
    /\ ~qr.pollTimer /\ ~qr.countdownTimer

PhonePostedInTime ==
    /\ MapHas(sessions, QRSession)
    /\ qr.create = "ok"
    /\ qr.status = "waiting"
    /\ now < Deadline
    /\ phone = "posting"

(***************************************************************************)
(* C19: once the PC has created the session and the phone, holding the     *)
(* registered credential, has authenticated for the session's challenge    *)
(* and posted its assertion before the 120 s deadline, the PC's QR page    *)
(* eventually shows the status 'success'.                                  *)
(***************************************************************************)
C19_QRUnlockCompletes == PhonePostedInTime ~> (qr.status = "success")


(***************************************************************************)
(* Steps of lib/crypto.ts used by the properties                           *)
(***************************************************************************)
\* decryptText is called on what encryptText has just returned
DecryptsEncrypted == call.kind = "encryptText" /\ call'.kind = "decryptText"

\* ... with the ciphertext and the iv encryptText returned, and the same key
SameArguments ==
    /\ call'.ciphertext = result.value.ciphertext
    /\ call'.iv = result.value.iv
    /\ call'.key = call.key

\* ... with a ciphertext or an iv that decodes to other bytes than
\* encryptText wrote, or does not decode, or with another key
OtherBytesOrKey ==
    \/ ~Decodes(call'.ciphertext)
    \/ ~Decodes(call'.iv)
    \/ base64urlDecode(call'.ciphertext) # base64urlDecode(result.value.ciphertext)
    \/ base64urlDecode(call'.iv) # base64urlDecode(result.value.iv)
    \/ call'.key # call.key

\* unwrapKey is called on what wrapKey has just returned
UnwrapsWrapped == call.kind = "wrapKey" /\ call'.kind = "unwrapKey"

\* the draws of crypto.getRandomValues that became AES-GCM ivs
IvDraws == {i \in DOMAIN random : random[i].use \in {"encryptText", "wrapKey"}}

(***************************************************************************)
(* C23: decryptText applied to the ciphertext and the iv that              *)
(* encryptText(m, k) returned, with the same key k, returns exactly m, for *)
(* every string m and key k.                                               *)
(***************************************************************************)
C23_DecryptInvertsEncrypt ==
    [][DecryptsEncrypted /\ SameArguments => result' = Returns(call.plaintext)]_vars

C25_UnwrapInvertsWrap ==
    [][UnwrapsWrapped
       => IF call'.wrappingKey = call.wrappingKey
          THEN result' = Returns(call.key)
          ELSE result'.out = "threw"]_vars

C25_Witness ==
    /\ call.kind = "unwrapKey"
    /\ call.wrappedKey.key = call.wrappingKey
    /\ result = Returns("other-key")

(***************************************************************************)
(* C26: encryptText and wrapKey take no iv from their caller and draw a    *)
(* new random 12-byte iv on every call: the iv of a call is the latest     *)
(* draw, no two draws under the same key are equal, and encrypting the     *)
(* same plaintext twice under the same key gives different results.        *)
(***************************************************************************)
C26_FreshIvOnEveryCall ==
    /\ [](/\ call.kind = "encryptText"
             => /\ random[Len(random)] = Draw("encryptText", call.key,
                                              base64urlDecode(result.value.iv))
                /\ result.value.ciphertext.bytes.iv = random[Len(random)].bytes
          /\ call.kind = "wrapKey"
             => /\ random[Len(random)] = Draw("wrapKey", call.wrappingKey,
                                              result.value.iv)
                /\ result.value.wrappedKey.iv = random[Len(random)].bytes
          /\ \A i, j \in IvDraws :
                i # j /\ random[i].use = random[j].use /\ random[i].key = random[j].key
                   => random[i].bytes # random[j].bytes)
    /\ [][call.kind = "encryptText" /\ call'.kind = "encryptText"
          /\ call'.plaintext = call.plaintext /\ call'.key = call.key
          => /\ result'.value.ciphertext # result.value.ciphertext
             /\ result'.value.iv # result.value.iv]_vars

C26_Witness ==
    /\ Len(random) >= 2
    /\ random[Len(random)].key = random[Len(random) - 1].key
    /\ random[Len(random)].use = "encryptText"
    /\ random[Len(random) - 1].use = "encryptText"
    /\ call.kind = "encryptText"

C28_InvalidFieldsRejected ==
    [][/\ \A r \in CreateRequests :
             /\ r.method = "POST"
             /\ InvalidString(r.id) \/ InvalidString(r.challenge)
             /\ HandleCreate(r)
             => /\ last'.status = 400
                /\ sessions' = sessions
                /\ sessionStore' = sessionStore
       /\ \A r \in StoreRequests :
             /\ r.id \in Ids
             /\ Live(sessionStore, r.id, now)
             /\ InvalidString(r.assertion)
             /\ HandleId(r)
             => /\ last'.status = 400
                /\ sessions' = sessions
                /\ sessionStore' = sessionStore]_vars

\* the chosen file parses and carries a master key record whose salt is not
\* the salt of the stored record
OtherLineage(file) ==
    /\ masterKeyData.stored
    /\ file.json = "value"
    /\ file.masterKeyData.kind = "object"
    /\ file.masterKeyData.salt # masterKeyData.salt

\* C21: when a master key record is stored and the file chosen for import
\* carries a master key record with another salt, handleImport leaves the
\* master key record and the notes as they are, and for a version 1 backup
\* that matches the schema the alert it shows is the keystore mismatch
C21_MismatchRefused ==
    [][/\ call'.kind = "handleImport"
       /\ OtherLineage(call'.data)
       /\ HandleImport(call'.data)
       => /\ masterKeyData' = masterKeyData
          /\ notes' = notes
          /\ BackupDataSchema(call'.data) /\ call'.data.version = 1 =>
               result'.value = <<"Import failed", KeystoreMismatch>>]_vars

C21_Witness ==
    /\ call.kind = "handleImport"
    /\ result.value = <<"Import failed", KeystoreMismatch>>
    /\ masterKeyData.stored
    /\ notes # EmptyMap

\* the data is not a version 1 backup
NotVersion1Backup(data) == ~BackupDataSchema(data) \/ data.version # 1

\* C22: for data that does not match the backup schema or whose version is
\* not 1, validateBackup reports invalid, importBackup throws, and
\* importBackup and handleImport leave the master key record and the notes
\* as they are
C22_InvalidBackupRejected ==
    [][/\ call'.kind \in {"validateBackup", "importBackup", "handleImport"}
       /\ call'.data.json = "value"
       /\ NotVersion1Backup(call'.data)
       => /\ CallValidateBackup(call'.data) => ~result'.valid
          /\ call'.kind = "importBackup"
               /\ CallImportBackup(call'.data, call'.mergeNotes) =>
                  /\ result'.out = "threw"
                  /\ masterKeyData' = masterKeyData
                  /\ notes' = notes
          /\ HandleImport(call'.data) =>
               masterKeyData' = masterKeyData /\ notes' = notes]_vars

C22_Witness ==
    /\ call.kind = "importBackup"
    /\ call.data.version # 1
    /\ result.out = "threw"
    /\ masterKeyData.stored
    /\ notes # EmptyMap

\* C30: the stored master key record has at least 100000 iterations, and
\* saveMasterKeyData called with fewer throws and leaves the stored record
\* as it is
C30_IterationsFloor ==
    /\ [](masterKeyData.stored => masterKeyData.iterations >= 100000)
    /\ [][/\ call'.kind = "saveMasterKeyData"
          /\ call'.data.iterations < 100000
          /\ CallSaveMasterKeyData(call'.data)
          => result'.out = "threw" /\ masterKeyData' = masterKeyData]_vars

C30_Witness ==
    /\ call.kind = "saveMasterKeyData"
    /\ call.data.iterations < 100000
    /\ result.out = "threw"
    /\ masterKeyData.stored

\* the step is a save of the editor opened on an existing note
SavesEdit ==
    /\ call'.kind = "handleSave"
    /\ call'.note.id \in DOMAIN notes
    /\ SaveEdit(call'.note.id, call'.content)

\* the step is a save of the editor opened for a new note
SavesNew ==
    /\ call'.kind = "handleSave"
    /\ call'.note = NoNote
    /\ SaveNew(call'.content)

\* the record stored under id holds content, encrypted under an iv that was
\* never drawn before
Reencrypted(id, content) ==
    /\ \A i \in DOMAIN random : random[i].bytes # notes'[id].iv.bytes
    /\ decryptText(notes'[id].ciphertext, notes'[id].iv, masterKey) = Returns(content)

\* C29: a save of the editor opened on an existing note stores, under the
\* same id, the content encrypted under a fresh iv, with createdAt as it was
\* and updatedAt the time of the save, and no other record changes; a save
\* of the editor opened for a new note adds one record under an id that was
\* not in the store and changes no other record
C29_SaveKeepsIdentity ==
    [][/\ SavesEdit =>
            LET id == call'.note.id IN
            /\ DOMAIN notes' = DOMAIN notes
            /\ \A other \in DOMAIN notes \ {id} : notes'[other] = notes[other]
            /\ notes'[id].id = id
            /\ notes'[id].createdAt = notes[id].createdAt
            /\ notes'[id].updatedAt = now
            /\ Reencrypted(id, call'.content)
       /\ SavesNew =>
            /\ \A other \in DOMAIN notes : notes'[other] = notes[other]
            /\ \E id \in DOMAIN notes' \ DOMAIN notes :
                 /\ DOMAIN notes' = DOMAIN notes \cup {id}
                 /\ notes'[id].id = id
                 /\ Reencrypted(id, call'.content)]_vars

\* while the dashboard is unlocked the timeout is pending, due one
\* LOCK_TIMEOUT after the latest activity
TimeoutFollowsActivity ==
    masterKey # Null =>
        timeoutRef.set /\ timeoutRef.due = lastActivity + LOCK_TIMEOUT

\* C31: on the unlocked dashboard the timeout is always pending and due one
\* LOCK_TIMEOUT after the latest activity event (or the unlock); every
\* activity event sets it to a full LOCK_TIMEOUT from that moment; when it
\* fires, not before that time, the master key becomes null and the editor
\* closes; and once LOCK_TIMEOUT has passed without activity the app locks
C31_LocksAfterInactivity ==
    /\ []TimeoutFollowsActivity
    /\ [][(Activity => timeoutRef' = Timeout(now + LOCK_TIMEOUT))
          /\ (TimeoutFires => /\ now >= lastActivity + LOCK_TIMEOUT
                              /\ masterKey' = Null
                              /\ ~showEditor')]_vars
    /\ ((masterKey # Null /\ now >= lastActivity + LOCK_TIMEOUT) ~> (masterKey = Null))

\* the timeout has locked a dashboard whose editor was open, some time after
\* an activity event that came later than the unlock
C31_Witness ==
    /\ masterKey = Null
    /\ page = "/"
    /\ lastActivity > 0
    /\ now >= lastActivity + LOCK_TIMEOUT
    /\ timeoutRef = NoTimeout
    /\ modal = NoModal

\* the step imports, in replace mode, the backup exportBackup returned
ImportsDownload ==
    /\ download.json = "value"
    /\ call'.kind = "importBackup"
    /\ ~call'.mergeNotes
    /\ call'.data = download
    /\ CallImportBackup(download, FALSE)

\* C32 as stated: importing in replace mode the backup exportBackup returned
\* leaves the state that was exported: the backup of the state after the
\* import is the imported backup (a backup holds the whole of both stores)
C32_ImportRestoresExport ==
    [][ImportsDownload =>
          /\ result'.out = "returned"
          /\ exportBackup(masterKeyData', notes') = download]_vars

\* C32, amended: the same for a backup exported while a master key record
\* was stored; a backup exported without one leaves the record of the
\* importing store in place
C32_ImportRestoresExportWithKey ==
    [][ImportsDownload =>
          /\ result'.out = "returned"
          /\ {n.note : n \in download.notes} = {notes'[id] : id \in DOMAIN notes'}
          /\ download.masterKeyData.kind = "object" =>
               exportBackup(masterKeyData', notes') = download
          /\ download.masterKeyData.kind = "null" =>
               masterKeyData' = masterKeyData]_vars

\* a backup exported with a master key record and notes was imported in
\* replace mode, and the stores hold what was exported
C32_Witness ==
    /\ call.kind = "importBackup"
    /\ ~call.mergeNotes
    /\ call.data = download
    /\ download.json = "value"
    /\ download.masterKeyData.kind = "object"
    /\ download.notes # {}
    /\ result.out = "returned"
    /\ exportBackup(masterKeyData, notes) = download

\* the step submits the setup form with a passphrase of fewer than 12
\* characters or with a confirmation that differs from it
SubmitsBadForm ==
    /\ call'.kind = "handleSetup"
    /\ \/ Length(call'.passphrase) < 12
       \/ call'.passphrase # call'.confirmPassphrase
    /\ \E enableBiometric \in BOOLEAN, registered \in BOOLEAN :
         Setup(call'.passphrase, call'.confirmPassphrase, enableBiometric, registered)

\* C33: handleSetup on a passphrase of fewer than 12 characters, or on a
\* confirmation that differs from the passphrase, shows an error, draws
\* neither salt nor iv, writes no master key record and no credential, and
\* stays on /setup
C33_BadSetupRejected ==
    [][SubmitsBadForm =>
          /\ result'.value \in {"Passphrase must be at least 12 characters",
                                "Passphrases do not match"}
          /\ random' = random
          /\ masterKeyData' = masterKeyData
          /\ credential' = credential
          /\ page' = "/setup"]_vars

C33_Witness ==
    /\ call.kind = "handleSetup"
    /\ Length(call.passphrase) >= 12
    /\ result.value = "Passphrases do not match"
    /\ ~masterKeyData.stored
    /\ random = <<>>
    /\ page = "/setup"

\* C34: base64urlEncode returns, for every byte array, a text without '+',
\* '/' and '=', and base64urlDecode on that text returns the byte array
C34_Base64urlRoundTrip ==
    [][/\ \A bytes \in ByteArrays(MaxBytes) :
            CallBase64urlEncode(bytes) =>
               /\ result'.out = "returned"
               /\ \A i \in DOMAIN result'.value :
                    result'.value[i] \notin {Char.plus, Char.slash, Char.equals}
       /\ CallBase64urlDecode => result' = Returns(call.bytes)]_vars

\* the master key that unlocking with the setup passphrase gives
WrappedMasterKey == handlePassphraseUnlock(SetupPassphrase, masterKeyData).key

\* C35: every note of the store is encrypted under the master key that the
\* stored master key record wraps, and a stored master key record is never
\* replaced by the record of another master key
C35_OneKeyLineage ==
    /\ [](\A id \in DOMAIN notes : notes[id].ciphertext.bytes.key = WrappedMasterKey)
    /\ [][masterKeyData.stored => masterKeyData'.salt = masterKeyData.salt]_vars

\* the last reading of the clock
ClockEnd == MaxIntervals * SWEEP_INTERVAL + 1

\* the values of expiresAt
ExpiryTimes ==
    {k * SWEEP_INTERVAL + d + SESSION_TTL : k \in 0..MaxIntervals, d \in {0, 1}}

\* the session created under id with deadline e is in the Map of part_001
Holds(id, e) == id \in DOMAIN sessions /\ sessions[id].expiresAt = e

(***************************************************************************)
(* C36: a session whose expiresAt has passed is eventually gone from the   *)
(* Map of the create endpoint, with no lookup at all, provided the clock   *)
(* reaches the next firing of the timer; and every run of the timer's      *)
(* callback leaves no session in that Map whose expiresAt has passed.      *)
(***************************************************************************)
C36_ExpiredSessionsAreSwept ==
    /\ \A id \in Ids, e \in ExpiryTimes :
          (Holds(id, e) /\ now > e /\ nextSweep <= ClockEnd) ~> ~Holds(id, e)
    /\ [][nextSweep' # nextSweep
          => \A id \in DOMAIN sessions' : now <= sessions'[id].expiresAt]_vars

\* a session was created and nothing looked it up; the timer has just run
\* and the Map is empty again
C36_Witness ==
    /\ last.route = "create" /\ last.status = 200
    /\ sessions = EmptyMap
    /\ nextSweep = now + SWEEP_INTERVAL

(***************************************************************************)
(* C37: neither Map of sessions ever holds more than MAX_SESSIONS entries, *)
(* whatever requests (creates of new and of stored ids, polls, stores of   *)
(* assertions) and sweeps have run.                                        *)
(***************************************************************************)
C37_StoreIsBounded ==
    /\ MapSize(sessions) <= MAX_SESSIONS
    /\ MapSize(sessionStore) <= MAX_SESSIONS

\* the Map is full and the create endpoint has just refused a request
C37_Witness ==
    /\ MapSize(sessions) = MAX_SESSIONS
    /\ last.route = "create" /\ last.status = 503

(***************************************************************************)
(* C38: a store request answered 200 sets the assertion of its session and *)
(* nothing else: the session keeps its challenge, createdAt and expiresAt, *)
(* every other session of the Map is as before, no session is added or     *)
(* removed, and the Map of the create endpoint is untouched.               *)
(***************************************************************************)
C38_StoreChangesAssertionOnly ==
    [][\A id \in Ids, a \in Assertions :
          HandleId(StoreRequest(id, a)) /\ last'.status = 200
          => /\ DOMAIN sessionStore' = DOMAIN sessionStore
             /\ id \in DOMAIN sessionStore
             /\ sessionStore'[id].assertion = a
             /\ sessionStore'[id].challenge = sessionStore[id].challenge
             /\ sessionStore'[id].createdAt = sessionStore[id].createdAt
             /\ sessionStore'[id].expiresAt = sessionStore[id].expiresAt
             /\ \A j \in DOMAIN sessionStore \ {id} : sessionStore'[j] = sessionStore[j]
             /\ sessions' = sessions]_vars

\* an assertion has just been stored, after time has passed, on one of two
\* sessions; the other one has none
C38_Witness ==
    /\ last.route = "id" /\ last.method = "POST" /\ last.status = 200
    /\ now > 0
    /\ \E id \in DOMAIN sessionStore, j \in DOMAIN sessionStore :
          /\ j # id
          /\ sessionStore[id].assertion \in Assertions
          /\ sessionStore[j].assertion = Null

(***************************************************************************)
(* C39: while the QR unlock page is mounted, a status other than 'waiting' *)
(* is never replaced by a different status, whatever poll, countdown tick  *)
(* or createSession response comes next.                                   *)
(***************************************************************************)
C39_StatusIsFinal ==
    [][(qr.mounted /\ qr'.mounted /\ qr.status # "waiting")
       => qr'.status = qr.status]_vars

(***************************************************************************)
(* C40: in QR mode the scan page shows 'success' only when the relay has   *)
(* answered its POST with a 2xx status; on 400, 404 and 409 it shows       *)
(* 'error'.                                                                *)
(***************************************************************************)
C40_SuccessNeedsAcceptedPost ==
    /\ [][PhonePostArrives
          => /\ phone' = "success" <=> last'.status \in 200..299
             /\ last'.status \in {400, 404, 409} => phone' = "error"]_vars
    /\ [][(phone' = "success" /\ phone # "success")
          => PhonePostArrives /\ last'.status \in 200..299]_vars

\* another device's assertion was stored first: the phone's POST was
\* answered 409 and the page shows the error
C40_Witness ==
    /\ phone = "error"
    /\ last.route = "id" /\ last.method = "POST" /\ last.status = 409
    /\ MapHas(sessionStore, QRSession)
    /\ sessionStore[QRSession].assertion = "A2"

=============================================================================
